---------------------------- MODULE Spec2Model ----------------------------
(***************************************************************************)
(* EliasDB query parser (package parser): the Pratt parser that turns the  *)
(* lexer's token channel into an AST, and the conversion between ASTs and  *)
(* plain (JSON-serialisable) ASTs.                                         *)
(*                                                                         *)
(* The parser is a function of the token stream.  It is written here as    *)
(* operators over an explicit parser record p (the Go struct `parser`):    *)
(* every Go function that takes p and may change it returns the changed    *)
(* record together with its own results.  Go pointers to AST nodes are     *)
(* modelled by returning the changed node to the caller.  A Go panic (a    *)
(* nil pointer dereference) is the flag p.panic, which every caller hands  *)
(* up unchanged, as unwinding does.                                        *)
(***************************************************************************)
EXTENDS Integers, Sequences, FiniteSets, TLC

VARIABLES
    stage,   \* which call the client makes next
    tokens,  \* contents of the lexer channel handed to Parse
    res,     \* what Parse returned
    plain,   \* a plain AST: the result of Plain, or a client-made map
    ast2,    \* what ASTFromPlain returned
    plain2,  \* Plain of ast2
    table,   \* the package's token table astNodeMap as it is now
    calls,   \* the Parse calls of concurrent clients
    psf,     \* a PagedStorageFile over its StorageFile
    out      \* what the last storage operation returned

vars == <<stage, tokens, res, plain, ast2, plain2, table, calls, psf, out>>

-----------------------------------------------------------------------------
(* Tokens, errors, AST nodes                                               *)

\* LexToken{ID, Pos, Val, Lline, Lpos}
LexToken(id, pos, val, lline, lpos) ==
    [ID |-> id, Pos |-> pos, Val |-> val, Lline |-> lline, Lpos |-> lpos]

\* The zero LexToken a receive from a closed channel yields.
ZeroToken == LexToken("", 0, "", 0, 0)

\* A nil *ASTNode.
Nil == [Name |-> "nil"]

\* A nil error.
NoErr == [Type |-> "nil", Detail |-> "", Pos |-> 0]

\* p.newParserError(t, detail, token): the error value.
newParserError(t, detail, token) ==
    [Type |-> t, Detail |-> detail, Pos |-> token.Pos]

\* One row of the token table: &ASTNode{name, nil, nil, nil, binding, nd, ld}.
\* home says where the object is: in the table, or on the heap of a call.
Proto(name, binding, nd, ld) ==
    [Name |-> name, Token |-> Nil, Children |-> <<>>, Runtime |-> "nil",
     binding |-> binding, nullDenotation |-> nd, leftDenotation |-> ld,
     home |-> "table"]

\* Map of AST nodes corresponding to lexer tokens.
astNodeMap ==
       ("EOF"           :> Proto("EOF", 0, "ndTerm", "nil"))
    @@ ("VALUE"         :> Proto("VALUE", 0, "ndTerm", "nil"))
    @@ ("NODEKIND"      :> Proto("VALUE", 0, "ndTerm", "nil"))
    @@ ("TRUE"          :> Proto("TRUE", 0, "ndTerm", "nil"))
    @@ ("FALSE"         :> Proto("FALSE", 0, "ndTerm", "nil"))
    @@ ("NULL"          :> Proto("NULL", 0, "ndTerm", "nil"))
    @@ ("AT"            :> Proto("FUNC", 0, "ndFunc", "nil"))
    @@ ("ORDERING"      :> Proto("ORDERING", 0, "ndWithFunc", "nil"))
    @@ ("FILTERING"     :> Proto("FILTERING", 0, "ndWithFunc", "nil"))
    @@ ("NULLTRAVERSAL" :> Proto("NULLTRAVERSAL", 0, "ndWithFunc", "nil"))
    @@ ("COMMA"         :> Proto("COMMA", 0, "nil", "nil"))
    @@ ("GROUP"         :> Proto("GROUP", 0, "nil", "nil"))
    @@ ("END"           :> Proto("END", 0, "nil", "nil"))
    @@ ("AS"            :> Proto("AS", 0, "nil", "nil"))
    @@ ("FORMAT"        :> Proto("FORMAT", 0, "nil", "nil"))
    @@ ("GET"           :> Proto("GET", 0, "ndGet", "nil"))
    @@ ("LOOKUP"        :> Proto("LOOKUP", 0, "ndLookup", "nil"))
    @@ ("FROM"          :> Proto("FROM", 0, "ndFrom", "nil"))
    @@ ("WHERE"         :> Proto("WHERE", 0, "ndPrefix", "nil"))
    @@ ("UNIQUE"        :> Proto("UNIQUE", 0, "ndPrefix", "nil"))
    @@ ("UNIQUECOUNT"   :> Proto("UNIQUECOUNT", 0, "ndPrefix", "nil"))
    @@ ("ISNOTNULL"     :> Proto("ISNOTNULL", 0, "ndPrefix", "nil"))
    @@ ("ASCENDING"     :> Proto("ASCENDING", 0, "ndPrefix", "nil"))
    @@ ("DESCENDING"    :> Proto("DESCENDING", 0, "ndPrefix", "nil"))
    @@ ("TRAVERSE"      :> Proto("TRAVERSE", 0, "ndTraverse", "nil"))
    @@ ("PRIMARY"       :> Proto("PRIMARY", 0, "ndPrefix", "nil"))
    @@ ("SHOW"          :> Proto("SHOW", 0, "ndShow", "nil"))
    @@ ("SHOWTERM"      :> Proto("SHOWTERM", 0, "ndShow", "nil"))
    @@ ("WITH"          :> Proto("WITH", 0, "ndWith", "nil"))
    @@ ("LIST"          :> Proto("LIST", 0, "nil", "nil"))
    @@ ("NOT"           :> Proto("NOT", 20, "ndPrefix", "nil"))
    @@ ("OR"            :> Proto("OR", 30, "nil", "ldInfix"))
    @@ ("AND"           :> Proto("AND", 40, "nil", "ldInfix"))
    @@ ("GEQ"           :> Proto("GEQ", 60, "nil", "ldInfix"))
    @@ ("LEQ"           :> Proto("LEQ", 60, "nil", "ldInfix"))
    @@ ("NEQ"           :> Proto("NEQ", 60, "nil", "ldInfix"))
    @@ ("EQ"            :> Proto("EQ", 60, "nil", "ldInfix"))
    @@ ("GT"            :> Proto("GT", 60, "nil", "ldInfix"))
    @@ ("LT"            :> Proto("LT", 60, "nil", "ldInfix"))
    @@ ("LIKE"          :> Proto("LIKE", 60, "nil", "ldInfix"))
    @@ ("IN"            :> Proto("IN", 60, "nil", "ldInfix"))
    @@ ("CONTAINS"      :> Proto("CONTAINS", 60, "nil", "ldInfix"))
    @@ ("BEGINSWITH"    :> Proto("BEGINSWITH", 60, "nil", "ldInfix"))
    @@ ("ENDSWITH"      :> Proto("ENDSWITH", 60, "nil", "ldInfix"))
    @@ ("CONTAINSNOT"   :> Proto("CONTAINSNOT", 60, "nil", "ldInfix"))
    @@ ("NOTIN"         :> Proto("NOTIN", 60, "nil", "ldInfix"))
    @@ ("PLUS"          :> Proto("PLUS", 110, "ndPrefix", "ldInfix"))
    @@ ("MINUS"         :> Proto("MINUS", 110, "ndPrefix", "ldInfix"))
    @@ ("TIMES"         :> Proto("TIMES", 120, "nil", "ldInfix"))
    @@ ("DIV"           :> Proto("DIV", 120, "nil", "ldInfix"))
    @@ ("MODINT"        :> Proto("MODINT", 120, "nil", "ldInfix"))
    @@ ("DIVINT"        :> Proto("DIVINT", 120, "nil", "ldInfix"))
    @@ ("LPAREN"        :> Proto("LPAREN", 150, "ndInner", "nil"))
    @@ ("RPAREN"        :> Proto("RPAREN", 0, "nil", "nil"))
    @@ ("LBRACK"        :> Proto("LBRACK", 150, "ndList", "nil"))
    @@ ("RBRACK"        :> Proto("RBRACK", 0, "nil", "nil"))

\* instance handing out the row of the table itself, with the token set.
instance_Shared(n, p, t) ==
    [n EXCEPT !.Token = t,
              !.Runtime = IF p.rp # "nil" THEN <<p.rp, n.Name>> ELSE "nil"]

\* n.instance(p, t): a fresh node for token t; the runtime provider, when
\* there is one, attaches its handle.
instance(n, p, t) ==
    [Name |-> n.Name, Token |-> t, Children |-> <<>>,
     Runtime |-> IF p.rp # "nil" THEN <<p.rp, n.Name>> ELSE "nil",
     binding |-> n.binding, nullDenotation |-> n.nullDenotation,
     leftDenotation |-> n.leftDenotation, home |-> "heap"]

-----------------------------------------------------------------------------
(* The parser record and what its functions return                         *)

\* &parser{name, nil, Lex(name, input), rp}.  pulls, muts and raised record
\* the history of the call: receives from the channel, appends to a
\* Children slice, and the errors newParserError made, each with the two
\* counts at that moment.
NewParser(toks, rp) ==
    [node |-> Nil, tokens |-> toks, rp |-> rp, panic |-> FALSE,
     pulls |-> 0, muts |-> 0, raised |-> <<>>, table |-> astNodeMap]

\* What a function hands back: the parser, a node, an error.
R(p, node, err) == [p |-> p, node |-> node, err |-> err]

\* A nil pointer dereference.
Panic(p) == R([p EXCEPT !.panic = TRUE], Nil, NoErr)

\* An error is made (and returned by the function that made it).
Raise(p, e) ==
    [p EXCEPT !.raised = Append(@, [err |-> e, pulls |-> p.pulls, muts |-> p.muts])]

\* self.Children = append(self.Children, c)
AppendChild(self, c) == [self EXCEPT !.Children = Append(@, c)]
Mut(p) == [p EXCEPT !.muts = @ + 1]

\* astNodeMap[id]: the pointer to the row, as the call finds it.
Prototype(p, id) == [p.table[id] EXCEPT !.home = id]

\* A write to the object n has made it what it is now: if the object is a
\* row of the table, the table has changed.
Store(p, n) ==
    IF n.home = "heap" THEN p
    ELSE [p EXCEPT !.table[n.home] = [n EXCEPT !.home = "table"]]

\* Sequencing.  Let names the result v of a call for what follows, K.
\* Unwind is Let for a call that may panic: the panic goes up.  Try is
\* "x, err := f(...); if err != nil { return nil, err }".
Let(v, K(_)) == K(v)
Unwind(r, K(_)) == IF r.p.panic THEN r ELSE K(r)
Try(r, K(_)) ==
    IF r.p.panic THEN r
    ELSE IF r.err # NoErr THEN R(r.p, Nil, r.err)
    ELSE K(r)

\* "self.Children = append(self.Children, c)" as a step of the parser: the
\* node field of the result is self after it.
AppendTo(p, self, c) ==
    Let(AppendChild(self, c), LAMBDA n : R(Store(Mut(p), n), n, NoErr))

\* "return ..., p.newParserError(...)": the error is made and returned,
\* with self for the node.
Fail(p, self, e) == R(Raise(p, e), self, e)

\* "p.node, err = p.next()"
Assign(r) == R([r.p EXCEPT !.node = r.node], r.node, r.err)

\* next retrieves the next lexer token.
next(p) ==
    IF p.tokens = <<>>
    THEN Fail([p EXCEPT !.pulls = @ + 1], Nil,
              newParserError("ErrUnexpectedEnd", "", ZeroToken))
    ELSE Let([p EXCEPT !.tokens = Tail(@), !.pulls = @ + 1], LAMBDA p1 :
         Let(Head(p.tokens), LAMBDA token :
             IF token.ID = "Error"
             THEN Fail(p1, Nil, newParserError("ErrLexicalError", token.Val, token))
             ELSE IF token.ID \in DOMAIN p1.table
             THEN Let(instance(Prototype(p1, token.ID), p1, token), LAMBDA ret :
                      R(Store(p1, ret), ret, NoErr))
             ELSE Fail(p1, Nil, newParserError("ErrUnknownToken", token.Val, token))))

\* skipToken without the case of the EOF token.
skipToken_NoEndCase(p, ids) ==
    IF p.node = Nil THEN Panic(p)
    ELSE IF p.node.Token.ID \notin ids
    THEN Fail(p, Nil, newParserError("ErrUnexpectedToken", p.node.Token.Val, p.node.Token))
    ELSE Let(Assign(next(p)), LAMBDA x : R(x.p, Nil, x.err))

\* skipToken skips over a given token.
skipToken(p, ids) ==
    IF p.node = Nil THEN Panic(p)
    ELSE IF p.node.Token.ID \notin ids
    THEN IF p.node.Token.ID = "EOF"
         THEN Fail(p, Nil, newParserError("ErrUnexpectedEnd", "", p.node.Token))
         ELSE Fail(p, Nil, newParserError("ErrUnexpectedToken", p.node.Token.Val, p.node.Token))
    ELSE Let(Assign(next(p)), LAMBDA x : R(x.p, Nil, x.err))

\* acceptChild accepts the current token as a child.  The node field of the
\* result is self after the call.
acceptChild(p, self, id) ==
    Let(Assign(next(p)), LAMBDA x :
        IF x.err # NoErr THEN R(x.p, self, x.err)
        ELSE IF p.node = Nil THEN Panic(x.p)
        ELSE IF p.node.Token.ID = id
        THEN AppendTo(x.p, self, p.node)
        ELSE Fail(x.p, self, newParserError("ErrUnexpectedToken", p.node.Token.Val, p.node.Token)))

-----------------------------------------------------------------------------
(* The main parser function and the denotations                            *)

RECURSIVE run(_, _)
RECURSIVE leftLoop(_, _, _)
RECURSIVE absorb(_, _, _, _)
RECURSIVE commaValues(_, _)
RECURSIVE showTerms(_, _)

\* ndTerm is used for terminals.
ndTerm(p, self) == R(p, self, NoErr)

\* ndInner keeping the block token as the parent of the inner expression.
ndInner_KeepsBlock(p, self) ==
    Try(run(p, 0), LAMBDA exp :
        Unwind(skipToken(exp.p, {"RPAREN"}), LAMBDA s :
            R(s.p, AppendChild(self, exp.node), s.err)))

\* ndInner returns the inner expression of an enclosed block and discards
\* the block token.
ndInner(p, self) ==
    Try(run(p, 0), LAMBDA exp :
        Unwind(skipToken(exp.p, {"RPAREN"}), LAMBDA s : R(s.p, exp.node, s.err)))

\* ndPrefix with the operand parsed at the operator's own binding.
ndPrefix_OwnBinding(p, self) ==
    Try(run(p, self.binding), LAMBDA val :
        AppendTo(val.p, self, val.node))

\* ndPrefix is used for prefix operators.
ndPrefix(p, self) ==
    Try(run(p, self.binding + 20), LAMBDA val :
        AppendTo(val.p, self, val.node))

\* The loops "for p.node.Token.ID != <stop> { exp, err := p.run(0); ...;
\* self.Children = append(self.Children, exp) }" of ndGet, ndLookup,
\* ndTraverse, ndWith, ndWithFunc and ndList; the last three also skip a
\* COMMA after each expression (commas = TRUE), ignoring skipToken's error.
absorb(p, self, stops, commas) ==
    IF p.node = Nil THEN Panic(p)
    ELSE IF p.node.Token.ID \in stops THEN R(p, self, NoErr)
    ELSE Try(run(p, 0), LAMBDA exp :
             Let(AppendTo(exp.p, self, exp.node), LAMBDA w :
                 IF w.p.node = Nil THEN Panic(w.p)
                 ELSE absorb(IF commas /\ w.p.node.Token.ID = "COMMA"
                             THEN skipToken(w.p, {"COMMA"}).p
                             ELSE w.p,
                             w.node, stops, commas)))

\* ndGet requiring a VALUE token for the kind.
ndGet_ValueKind(p, self) ==
    Try(acceptChild(p, self, "VALUE"), LAMBDA a :
        absorb(a.p, a.node, {"EOF"}, FALSE))

\* ndGet is used to parse lookup expressions.
ndGet(p, self) ==
    Try(acceptChild(p, self, "NODEKIND"), LAMBDA a :
        absorb(a.p, a.node, {"EOF"}, FALSE))

\* The loops "for skipToken(p, TokenCOMMA) == nil { if err := acceptChild(p,
\* self, TokenVALUE); err != nil { return nil, err } }" of ndLookup and
\* ndFunc.  The error that ends the loop is dropped.
commaValues(p, self) ==
    Unwind(skipToken(p, {"COMMA"}), LAMBDA s :
        IF s.err # NoErr THEN R(s.p, self, NoErr)
        ELSE Try(acceptChild(s.p, self, "VALUE"), LAMBDA a :
                 commaValues(a.p, a.node)))

\* ndLookup is used to parse lookup expressions.
ndLookup(p, self) ==
    Try(acceptChild(p, self, "NODEKIND"), LAMBDA a :
        Try(acceptChild(a.p, a.node, "VALUE"), LAMBDA b :
            Try(commaValues(b.p, b.node), LAMBDA c :
                absorb(c.p, c.node, {"EOF"}, FALSE))))

\* ndFrom is used to parse from group ... expressions.
ndFrom(p, self) ==
    Try(acceptChild(p, self, "GROUP"), LAMBDA a :
        Unwind(acceptChild(a.p, a.node.Children[1], "VALUE"), LAMBDA b :
            R(b.p, [a.node EXCEPT !.Children[1] = b.node], b.err)))

\* ndTraverse is used to parse traverse expressions.
ndTraverse(p, self) ==
    Try(acceptChild(p, self, "VALUE"), LAMBDA a :
        Try(absorb(a.p, a.node, {"EOF", "END"}, FALSE), LAMBDA b :
            IF b.p.node.Token.ID = "END"
            THEN R(skipToken(b.p, {"END"}).p, b.node, NoErr)
            ELSE R(b.p, b.node, NoErr)))

\* ndFunc without the closing bracket.
ndFunc_NoClosing(p, self) ==
    Try(acceptChild(p, self, "VALUE"), LAMBDA a :
        Try(skipToken(a.p, {"LPAREN"}), LAMBDA s :
            Try(IF s.p.node = Nil THEN Panic(s.p)
                ELSE IF s.p.node.Token.ID = "VALUE"
                THEN Unwind(acceptChild(s.p, a.node, "VALUE"), LAMBDA v :
                         commaValues(v.p, v.node))
                ELSE R(s.p, a.node, NoErr),
                LAMBDA c :
                    Unwind(skipToken(c.p, {"RPAREN"}), LAMBDA t :
                        R(t.p, c.node, NoErr)))))

\* ndFunc is used to parse functions.
ndFunc(p, self) ==
    Try(acceptChild(p, self, "VALUE"), LAMBDA a :
        Try(skipToken(a.p, {"LPAREN"}), LAMBDA s :
            Try(IF s.p.node = Nil THEN Panic(s.p)
                ELSE IF s.p.node.Token.ID = "VALUE"
                THEN Unwind(acceptChild(s.p, a.node, "VALUE"), LAMBDA v :
                         commaValues(v.p, v.node))
                ELSE R(s.p, a.node, NoErr),
                LAMBDA c :
                    Unwind(skipToken(c.p, {"RPAREN"}), LAMBDA t :
                        R(t.p, c.node, t.err)))))

\* The blocks "if p.node.Token.ID == TokenAS { current := p.node;
\* acceptChild(p, st, TokenAS); if err := acceptChild(p, current,
\* TokenVALUE); err != nil { return err } }" of acceptShowTerm, for AS and
\* for FORMAT.  The first acceptChild's error is dropped; current (p.node
\* here) is the node st's last child points to when that call appended it.
showSuffix(p, st, id) ==
    IF p.node = Nil THEN Panic(p)
    ELSE IF p.node.Token.ID # id THEN R(p, st, NoErr)
    ELSE Unwind(acceptChild(p, st, id), LAMBDA a :
             Unwind(acceptChild(a.p, p.node, "VALUE"), LAMBDA b :
                 IF b.err # NoErr THEN R(b.p, a.node, b.err)
                 ELSE IF a.err = NoErr
                 THEN R(b.p, [a.node EXCEPT !.Children[Len(a.node.Children)] = b.node], NoErr)
                 ELSE R(b.p, a.node, NoErr)))

\* The closure acceptShowTerm of ndShow.  The node field of the result is
\* the SHOW node self after the call.
acceptShowTerm(p, self) ==
    IF p.node = Nil THEN Panic(p)
    ELSE Try(IF p.node.Token.ID = "AT"
             THEN Try(run(p, 0), LAMBDA exp :
                      AppendTo(exp.p, instance(Prototype(p, "SHOWTERM"), p, p.node.Token),
                               exp.node))
             ELSE R(skipToken(p, {"VALUE"}).p,
                    instance(Prototype(p, "SHOWTERM"), p, p.node.Token), NoErr),
             LAMBDA st :
                 Try(showSuffix(st.p, st.node, "AS"), LAMBDA as :
                     Try(showSuffix(as.p, as.node, "FORMAT"), LAMBDA fm :
                         AppendTo(fm.p, self, fm.node))))

\* The loop "for skipToken(p, TokenCOMMA) == nil { if err := acceptShowTerm();
\* err != nil { return nil, err } }" of ndShow.
showTerms(p, self) ==
    Unwind(skipToken(p, {"COMMA"}), LAMBDA s :
        IF s.err # NoErr THEN R(s.p, self, NoErr)
        ELSE Try(acceptShowTerm(s.p, self), LAMBDA t : showTerms(t.p, t.node)))

\* ndShow is used to parse a show clauses.
ndShow(p, self) ==
    IF p.node = Nil THEN Panic(p)
    ELSE IF p.node.Token.ID \in {"VALUE", "AT"}
    THEN Try(acceptShowTerm(p, self), LAMBDA t : showTerms(t.p, t.node))
    ELSE R(p, self, NoErr)

\* ndWith is used to parse a with clauses.
ndWith(p, self) == absorb(p, self, {"EOF"}, TRUE)

\* ndWithFunc is used to parse directives in with clauses.
ndWithFunc(p, self) ==
    Try(skipToken(p, {"LPAREN"}), LAMBDA s :
        Try(absorb(s.p, self, {"RPAREN"}, TRUE), LAMBDA b :
            Unwind(skipToken(b.p, {"RPAREN"}), LAMBDA t : R(t.p, b.node, t.err))))

\* ndList is used to collect elements of a list.
ndList(p, self) ==
    Try(absorb(p, instance(Prototype(p, "LIST"), p, self.Token), {"RBRACK"}, TRUE), LAMBDA b :
        Unwind(skipToken(b.p, {"RBRACK"}), LAMBDA t : R(t.p, b.node, t.err)))

\* ldInfix with the right operand parsed at binding 0.
ldInfix_NoBinding(p, self, left) ==
    Try(run(p, 0), LAMBDA right :
        Unwind(AppendTo(right.p, self, left), LAMBDA w :
            AppendTo(w.p, w.node, right.node)))

\* ldInfix with the right operand parsed just below the operator's binding.
ldInfix_RightAssoc(p, self, left) ==
    Try(run(p, self.binding - 1), LAMBDA right :
        Unwind(AppendTo(right.p, self, left), LAMBDA w :
            AppendTo(w.p, w.node, right.node)))

\* ldInfix with the right operand appended before the left one.
ldInfix_RightFirst(p, self, left) ==
    Try(run(p, self.binding), LAMBDA right :
        Unwind(AppendTo(right.p, self, right.node), LAMBDA w :
            AppendTo(w.p, w.node, left)))

\* ldInfix is used for infix operators.
ldInfix(p, self, left) ==
    Try(run(p, self.binding), LAMBDA right :
        Unwind(AppendTo(right.p, self, left), LAMBDA w :
            AppendTo(w.p, w.node, right.node)))

\* n.nullDenotation(p, n): the call through the function value of the table.
nullDenotation(p, n) ==
    CASE n.nullDenotation = "ndTerm"     -> ndTerm(p, n)
      [] n.nullDenotation = "ndInner"    -> ndInner(p, n)
      [] n.nullDenotation = "ndPrefix"   -> ndPrefix(p, n)
      [] n.nullDenotation = "ndGet"      -> ndGet(p, n)
      [] n.nullDenotation = "ndLookup"   -> ndLookup(p, n)
      [] n.nullDenotation = "ndFrom"     -> ndFrom(p, n)
      [] n.nullDenotation = "ndTraverse" -> ndTraverse(p, n)
      [] n.nullDenotation = "ndFunc"     -> ndFunc(p, n)
      [] n.nullDenotation = "ndShow"     -> ndShow(p, n)
      [] n.nullDenotation = "ndWith"     -> ndWith(p, n)
      [] n.nullDenotation = "ndWithFunc" -> ndWithFunc(p, n)
      [] n.nullDenotation = "ndList"     -> ndList(p, n)

\* n.leftDenotation(p, n, left): ldInfix is the only left denotation.
leftDenotation(p, n, left) == ldInfix(p, n, left)

\* The loop of run: collect left denotations as long as the left binding
\* power is greater than the initial right one.
leftLoop(p, rightBinding, left) ==
    IF p.node = Nil THEN Panic(p)
    ELSE IF ~(rightBinding < p.node.binding) THEN R(p, left, NoErr)
    ELSE Try(Assign(next(p)), LAMBDA x :
             IF p.node.leftDenotation = "nil"
             THEN Fail(x.p, Nil, newParserError("ErrImpossibleLeftDenotation",
                                                p.node.Token.Val, p.node.Token))
             ELSE Try(leftDenotation(x.p, p.node, left), LAMBDA nleft :
                      leftLoop(nleft.p, rightBinding, nleft.node)))

\* run looking at the null denotation before it advances.
run_CheckFirst(p, rightBinding) ==
    IF p.node = Nil THEN Panic(p)
    ELSE IF p.node.nullDenotation = "nil"
    THEN Fail(p, Nil, newParserError("ErrImpossibleNullDenotation",
                                     p.node.Token.Val, p.node.Token))
    ELSE Try(Assign(next(p)), LAMBDA x :
             Try(nullDenotation(x.p, p.node), LAMBDA left :
                 leftLoop(left.p, rightBinding, left.node)))

\* run models the main parser function.
run(p, rightBinding) ==
    Try(Assign(next(p)), LAMBDA x :
        IF p.node = Nil THEN Panic(x.p)
        ELSE IF p.node.nullDenotation = "nil"
        THEN Fail(x.p, Nil, newParserError("ErrImpossibleNullDenotation",
                                           p.node.Token.Val, p.node.Token))
        ELSE Try(nullDenotation(x.p, p.node), LAMBDA left :
                 leftLoop(left.p, rightBinding, left.node)))

\* The first statements of ParseWithRuntime, "p := &parser{name, nil,
\* Lex(name, input), rp}; node, err := p.next()", where the table is tbl.
beginParse(tbl, toks, rp) == next([NewParser(toks, rp) EXCEPT !.table = tbl])

\* The rest of ParseWithRuntime, "if err != nil { return nil, err };
\* p.node = node; return p.run(0)", where the table is tbl by now.
finishParse(tbl, x) ==
    IF x.err # NoErr
    THEN [ast |-> Nil, err |-> x.err, panic |-> FALSE, p |-> x.p]
    ELSE Let(run([x.p EXCEPT !.node = x.node, !.table = tbl], 0), LAMBDA r :
             [ast |-> r.node, err |-> r.err, panic |-> r.p.panic, p |-> r.p])

\* ParseWithRuntime parses a given input (here: the token channel Lex made
\* of it) and returns an AST decorated with runtime components.  This is
\* the call in a process where no other call has been made.
ParseWithRuntime(toks, rp) ==
    Let(beginParse(astNodeMap, toks, rp), LAMBDA x : finishParse(x.p.table, x))

\* Parse parses a given input string and returns an AST.
Parse(toks) == ParseWithRuntime(toks, "nil")

-----------------------------------------------------------------------------
(* Plain ASTs                                                              *)

\* A Go interface{} value found under "name" or "value": a string or a
\* number (JSON gives both).
Str(s) == [type |-> "string", s |-> s, n |-> 0]
Num(n) == [type |-> "int", s |-> "", n |-> n]

\* fmt.Sprint(v)
Sprint(v) == IF v.type = "string" THEN v.s ELSE ToString(v.n)

RECURSIVE Plain(_)
RECURSIVE ASTFromPlain(_)
RECURSIVE childrenFromPlain(_, _, _)

\* Plain with the key children also for a node without children.
Plain_AlwaysChildren(n) ==
    [name     |-> Str(n.Name),
     children |-> [i \in 1..Len(n.Children) |-> Plain(n.Children[i])],
     value    |-> Str(n.Token.Val)]

\* Plain returns this ASTNode and all its children as plain AST: a map with
\* the keys name and value, and children when there are any.
Plain(n) ==
    LET lenChildren == Len(n.Children)
    IN  IF lenChildren > 0
        THEN [name     |-> Str(n.Name),
              children |-> [i \in 1..lenChildren |-> Plain(n.Children[i])],
              value    |-> Str(n.Token.Val)]
        ELSE [name |-> Str(n.Name), value |-> Str(n.Token.Val)]

\* The loop putting each child before the ones it has.
childrenFromPlain_Prepend(children, i, astChildren) ==
    IF i > Len(children) THEN [node |-> Nil, kids |-> astChildren, err |-> NoErr]
    ELSE Let(ASTFromPlain(children[i]), LAMBDA c :
             IF c.err # NoErr THEN [node |-> Nil, kids |-> <<>>, err |-> c.err]
             ELSE childrenFromPlain(children, i + 1, <<c.node>> \o astChildren))

\* The loop "for _, child := range children { astChild, err :=
\* ASTFromPlain(child); if err != nil { return nil, err }; astChildren =
\* append(astChildren, astChild) }" from child i on.
childrenFromPlain(children, i, astChildren) ==
    IF i > Len(children) THEN [node |-> Nil, kids |-> astChildren, err |-> NoErr]
    ELSE Let(ASTFromPlain(children[i]), LAMBDA c :
             IF c.err # NoErr THEN [node |-> Nil, kids |-> <<>>, err |-> c.err]
             ELSE childrenFromPlain(children, i + 1, Append(astChildren, c.node)))

\* fmt.Errorf(...)
Errorf(msg) == [Type |-> msg, Detail |-> "", Pos |-> 0]

\* ASTFromPlain creates an AST from a plain AST.  A nil and an empty
\* Children slice are both the empty sequence (len and range agree on them).
ASTFromPlain(plainAST) ==
    IF "name" \notin DOMAIN plainAST
    THEN [node |-> Nil, err |-> Errorf("Found plain ast node without a name")]
    ELSE IF "value" \notin DOMAIN plainAST
    THEN [node |-> Nil, err |-> Errorf("Found plain ast node without a value")]
    ELSE Let(IF "children" \in DOMAIN plainAST
             THEN childrenFromPlain(plainAST.children, 1, <<>>)
             ELSE [node |-> Nil, kids |-> <<>>, err |-> NoErr],
             LAMBDA k :
                 IF k.err # NoErr THEN [node |-> Nil, err |-> k.err]
                 ELSE [node |-> [Name |-> Sprint(plainAST.name),
                                 Token |-> LexToken("General", 0, Sprint(plainAST.value), 0, 0),
                                 Children |-> k.kids, Runtime |-> "nil", binding |-> 0,
                                 nullDenotation |-> "nil", leftDenotation |-> "nil",
                                 home |-> "heap"],
                       err |-> NoErr])

-----------------------------------------------------------------------------
(* The lexer's side of the channel                                         *)

\* A lexeme: token id and the text found in the source.  The text of a
\* keyword or operator is written as its token id.
Sym(id) == <<id, id>>
V(val) == <<"VALUE", val>>
K(val) == <<"NODEKIND", val>>

\* The channel Lex(name, input) fills: one token per lexeme, then the EOF
\* token, or the Error token at which the lexer gives up; then the channel
\* is closed.  A token's position stands for its Pos, Lline and Lpos.
Lex(syms, last) ==
    [i \in 1..(Len(syms) + 1) |->
        IF i <= Len(syms) THEN LexToken(syms[i][1], i, syms[i][2], 1, i)
        ELSE LexToken(last, i, IF last = "Error" THEN "lexical error" ELSE "", 1, i)]

-----------------------------------------------------------------------------
(* Inputs                                                                  *)

\* Longest sequence of arbitrary tokens tried.
MaxFuzzLen == 3
\* Most clauses after the head of a statement.
MaxClauses == 2
\* Most show-terms in a show clause.
MaxShowTerms == 2
\* Most children of a node of a client-made plain AST.
MaxPlainKids == 2
\* Most tokens after the name of a function.
MaxFuncTail == 5
\* Most Parse calls of concurrent clients.
MaxCalls == 2

\* Most tokens after the '[' of a list.
MaxListTail == 5
\* Most clauses and 'end's of a statement with traversals.
MaxTraverseItems == 4

InfixIDs  == {id \in DOMAIN astNodeMap : astNodeMap[id].leftDenotation = "ldInfix"}
PrefixIDs == {id \in DOMAIN astNodeMap : astNodeMap[id].nullDenotation = "ndPrefix"}
TermIDs   == {id \in DOMAIN astNodeMap : astNodeMap[id].nullDenotation = "ndTerm"} \ {"EOF"}

SeqsUpTo(S, n) == UNION {[1..k -> S] : k \in 0..n}

RECURSIVE Flatten(_)
Flatten(ss) == IF ss = <<>> THEN <<>> ELSE Head(ss) \o Flatten(Tail(ss))

RECURSIVE Join(_)
Join(ss) ==
    IF Len(ss) = 0 THEN <<>>
    ELSE IF Len(ss) = 1 THEN ss[1]
    ELSE ss[1] \o <<Sym("COMMA")>> \o Join(Tail(ss))

\* Operand triples a, b, c.
Operands ==
    { <<V("1"), V("2"), V("3")>>,
      <<Sym("TRUE"), Sym("NULL"), Sym("FALSE")>>,
      <<V("a"), V("a"), V("a")>> }

\* a o1 b o2 c, and a o b, for all infix operators.
InfixInputs ==
       {<<x[1], Sym(o1), x[2], Sym(o2), x[3]>> : o1 \in InfixIDs, o2 \in InfixIDs, x \in Operands}
    \cup {<<x[1], Sym(o), x[2]>> : o \in InfixIDs, x \in Operands}

\* Prefix operators alone, before an operand, before and after an infix
\* operator, and twice.
PrefixInputs ==
       {<<Sym(q)>> : q \in PrefixIDs}
    \cup {<<Sym(q), V("a")>> : q \in PrefixIDs}
    \cup {<<Sym(q), V("a"), Sym(o), V("b")>> : q \in PrefixIDs, o \in InfixIDs}
    \cup {<<V("a"), Sym(o), Sym(q), V("b")>> : q \in PrefixIDs, o \in InfixIDs}
    \cup {<<Sym(q1), Sym(q2), V("a")>> : q1 \in PrefixIDs, q2 \in PrefixIDs}

\* toks with "(" before lexeme i and ")" after lexeme j.
Wrap(syms, i, j) ==
    SubSeq(syms, 1, i - 1) \o <<Sym("LPAREN")>> \o SubSeq(syms, i, j)
        \o <<Sym("RPAREN")>> \o SubSeq(syms, j + 1, Len(syms))

\* The ranges i..j of the lexemes 1..n.
Ranges(n) == {ij \in (1..n) \X (1..n) : ij[1] <= ij[2]}

ParenOps == {"OR", "AND", "EQ", "PLUS", "MINUS", "TIMES"}

\* One pair of parentheses around any part of a o1 b o2 c, and around
\* parts of - a o b.
ParenInputs ==
       {Wrap(<<V("1"), Sym(o1), V("2"), Sym(o2), V("3")>>, ij[1], ij[2]) :
            o1 \in ParenOps, o2 \in ParenOps, ij \in Ranges(5)}
    \cup {Wrap(<<Sym(q), V("1"), Sym(o), V("2")>>, ij[1], ij[2]) :
            q \in {"NOT", "MINUS"}, o \in ParenOps, ij \in Ranges(4)}

\* The same, cut short anywhere.
TruncatedInputs == {SubSeq(x, 1, k) : x \in ParenInputs, k \in 0..6}

\* Any short sequence of these tokens; "General" is a token id the table
\* does not know.
FuzzAlphabet ==
    { V("a"), Sym("PLUS"), Sym("NOT"), Sym("LPAREN"), Sym("RPAREN"),
      Sym("LBRACK"), Sym("RBRACK"), Sym("COMMA"), Sym("END"), Sym("TRAVERSE"),
      Sym("WITH"), Sym("SHOW"), Sym("AS"), Sym("General") }

FuzzInputs == SeqsUpTo(FuzzAlphabet, MaxFuzzLen)

\* Statements: a head and some clauses.
Heads ==
    { <<Sym("GET"), K("Song")>>,
      <<Sym("LOOKUP"), K("Song"), V("k1")>>,
      <<Sym("LOOKUP"), K("Song"), V("k1"), Sym("COMMA"), V("k2")>>,
      <<Sym("LOOKUP"), K("Song"), V("k1"), Sym("COMMA")>>,
      <<Sym("GET")>>,
      <<Sym("LOOKUP"), K("Song")>>,
      <<Sym("GET"), V("Song")>> }

Clauses ==
    { <<Sym("WHERE"), V("name"), Sym("EQ"), V("Aria1")>>,
      <<Sym("WHERE"), Sym("NOT"), V("a"), Sym("AND"), V("b")>>,
      <<Sym("TRAVERSE"), V("x"), Sym("END")>>,
      <<Sym("TRAVERSE"), V("x")>>,
      <<Sym("TRAVERSE"), V("x"), Sym("WHERE"), V("a"), Sym("LT"), V("b"), Sym("END")>>,
      <<Sym("FROM"), Sym("GROUP"), V("g")>>,
      <<Sym("PRIMARY"), V("k")>>,
      <<Sym("SHOW"), V("name")>>,
      <<Sym("WITH"), Sym("ORDERING"), Sym("LPAREN"), Sym("ASCENDING"), V("a"), Sym("RPAREN")>>,
      <<Sym("END")>> }

StatementInputs == {h \o Flatten(cs) : h \in Heads, cs \in SeqsUpTo(Clauses, MaxClauses)}

\* Show clauses: show-terms separated by commas.  A show-term is a VALUE or
\* a function, then "as X" and "format F"; some are malformed.
ShowBases ==
    { <<V("name")>>,
      <<Sym("AT"), V("count"), Sym("LPAREN"), Sym("RPAREN")>>,
      <<>>,
      <<Sym("PLUS"), V("b")>> }

ShowSuffixes ==
    { <<>>,
      <<Sym("AS"), V("Title")>>,
      <<Sym("FORMAT"), V("%d")>>,
      <<Sym("AS"), V("Title"), Sym("FORMAT"), V("%d")>>,
      <<Sym("FORMAT"), V("%d"), Sym("AS"), V("Title")>>,
      <<Sym("AS")>> }

ShowTermForms == {b \o x : b \in ShowBases, x \in ShowSuffixes}

ShowInputs ==
    {h \o <<Sym("SHOW")>> \o Join(ts) :
        h \in {<<>>, <<Sym("GET"), K("Song")>>},
        ts \in (SeqsUpTo(ShowTermForms, MaxShowTerms) \ {<<>>})}

\* Function calls: @ and a name, then any short sequence of parentheses,
\* values and commas.
FuncAlphabet == {Sym("LPAREN"), Sym("RPAREN"), V("a"), Sym("COMMA")}

FuncInputs ==
       {<<Sym("AT"), V("count")>> \o t : t \in SeqsUpTo(FuncAlphabet, MaxFuncTail)}
    \cup {<<Sym("AT")>>, <<Sym("AT"), Sym("LPAREN"), Sym("RPAREN")>>}

\* Every token the lexer can produce, in operand position and after an
\* operand, at the top level and to the right of an infix operator.
LexerTokens == DOMAIN astNodeMap \ {"EOF", "SHOWTERM", "LIST"}

DenotationInputs ==
    UNION { { <<Sym(x)>>, <<Sym(x), V("b")>>,
              <<V("a"), Sym(x)>>, <<V("a"), Sym(x), V("b")>>,
              <<V("a"), Sym("PLUS"), Sym(x)>>, <<V("a"), Sym("PLUS"), Sym(x), V("b")>>,
              <<V("a"), Sym("PLUS"), V("b"), Sym(x), V("c")>> } : x \in LexerTokens }

\* Bracketed lists: '[' and every tail of values, commas and ']'.
ListAlphabet == {V("a"), Sym("COMMA"), Sym("RBRACK")}

ListInputs == {<<Sym("LBRACK")>> \o t : t \in SeqsUpTo(ListAlphabet, MaxListTail)}

\* Traversals: clauses and 'end's, in a GET statement or on their own.
TraverseItems ==
    { <<Sym("TRAVERSE"), V("s")>>, <<Sym("WHERE"), V("a")>>,
      <<Sym("PRIMARY"), V("k")>>, <<Sym("END")>> }

TraverseInputs ==
    {h \o Flatten(cs) : h \in {<<>>, <<Sym("GET"), K("Song")>>},
                        cs \in SeqsUpTo(TraverseItems, MaxTraverseItems)}

Inputs == InfixInputs \cup PrefixInputs \cup ParenInputs \cup TruncatedInputs \cup FuzzInputs
              \cup StatementInputs \cup ShowInputs \cup FuncInputs \cup DenotationInputs
              \cup TraverseInputs \cup ListInputs

\* The channels Parse may be handed.
TokenStreams == {Lex(x, last) : x \in Inputs, last \in {"EOF", "Error"}}

\* Plain ASTs a client may hand to ASTFromPlain: name and value are strings
\* or numbers, children is absent, empty or not; some lack name or value.
PlainScalars == {Str("PLUS"), Num(1)}

PlainLeaves ==
       {[name |-> n, value |-> v] : n \in {Str("VALUE")}, v \in PlainScalars}
    \cup {[name |-> n, value |-> v, children |-> <<>>] : n \in {Str("VALUE")}, v \in PlainScalars}
    \cup {[name |-> Str("VALUE")], [value |-> Str("1")]}

PlainLevel1 ==
    {[name |-> n, value |-> Str(""), children |-> ks] :
        n \in PlainScalars, ks \in (SeqsUpTo(PlainLeaves, MaxPlainKids) \ {<<>>})}

PlainLevel2 ==
    {[name |-> Str("GET"), value |-> Str("get"), children |-> <<k>>] : k \in PlainLevel1}

PlainMaps == PlainLeaves \cup PlainLevel1 \cup PlainLevel2

-----------------------------------------------------------------------------
(* The paged storage: StorageFile records with in-use protection, and the  *)
(* typed page lists PagedStorageFile keeps over them.  The storage code is *)
(* not among the repository files at hand; these definitions follow the    *)
(* specification's sections 4.1 and 4.3 and the calls the paging test      *)
(* makes.                                                                  *)

MaxRecords == 5     \* records 1..MaxRecords can hold pages (record 0 is the root)
MaxFrees   == 1     \* FreePage calls of one run
MaxHeld    == 1     \* records an external caller holds at a time

FREE_PAGE == "FREE_PAGE"
PageTypes == {"DATA_PAGE", "FREE_PHYSICAL_SLOT_PAGE"}
ListTypes == PageTypes \cup {FREE_PAGE}

NoError         == "nil"
ErrAlreadyInUse == "AlreadyInUse"
ErrInUse        == "Records are still in use"

\* A page header: type tag, next-page and previous-page location (0 = none).
PageView(t, nxt, prv) == [type |-> t, next |-> nxt, prev |-> prv]

\* NewPagedStorageFile(sf) on a fresh StorageFile: no page, every list empty.
NewPagedStorageFile ==
    [pages  |-> <<>>,
     first  |-> [t \in ListTypes |-> 0],
     holder |-> [id \in 1..MaxRecords |-> "none"],
     closed |-> FALSE,
     allocs |-> [t \in PageTypes |-> 0],
     frees  |-> 0]

NoFile == [NewPagedStorageFile EXCEPT !.closed = TRUE]
\* What an operation returned: the page type it was asked about, the record
\* it was asked for, the count and the error, as far as it has them.
NoOut  == [op |-> "none", t |-> FREE_PAGE, id |-> 0, n |-> 0, err |-> NoError]

\* First(p, t): the head of the list of type t.
First(f, t) == f.first[t]

\* StorageFile.Get(id): acquires the record for exclusive use.
sfGet(f, id, who) ==
    IF f.holder[id] # "none"
    THEN [f |-> f, err |-> ErrAlreadyInUse]
    ELSE [f |-> [f EXCEPT !.holder[id] = who], err |-> NoError]

\* StorageFile.ReleaseInUse(r)
ReleaseInUse(f, id) == [f EXCEPT !.holder[id] = "none"]

\* The records an operation has to acquire, one at a time.
Touched(ids) == ids \ {0}
AnyHeld(f, ids) == \E id \in Touched(ids) : f.holder[id] # "none"

RECURSIVE walk_KeepsHold(_, _, _)
walk_KeepsHold(f, id, n) ==
    IF id = 0 THEN [f |-> f, n |-> n, err |-> NoError]
    ELSE LET g == sfGet(f, id, "walk")
         IN  IF g.err # NoError
             THEN [f |-> g.f, n |-> -1, err |-> g.err]
             ELSE walk_KeepsHold(g.f, f.pages[id].next, n + 1)

\* The walk of CountPages from a page to the tail: acquire the page, read
\* its Next, release it, go on; a page held by another caller aborts it.
RECURSIVE walk(_, _, _)
walk(f, id, n) ==
    IF id = 0 THEN [f |-> f, n |-> n, err |-> NoError]
    ELSE LET g == sfGet(f, id, "walk")
         IN  IF g.err # NoError
             THEN [f |-> g.f, n |-> -1, err |-> g.err]
             ELSE walk(ReleaseInUse(g.f, id), f.pages[id].next, n + 1)

\* CountPages(p, t)
CountPages(f, t) == walk(f, First(f, t), 0)

\* Patch one header field of a page, if there is such a page.
SetNext(pages, id, nxt) == IF id = 0 THEN pages ELSE [pages EXCEPT ![id].next = nxt]
SetPrev(pages, id, prv) == IF id = 0 THEN pages ELSE [pages EXCEPT ![id].prev = prv]

AllocatePage_Unlinked(f, t) ==
    LET r == [f |-> f, id |-> Len(f.pages) + 1]
    IN  [f |-> [f EXCEPT !.pages = Append(f.pages, PageView(t, 0, 0)),
                         !.first = [f.first EXCEPT ![t] = r.id],
                         !.allocs[t] = @ + 1],
         id |-> r.id, err |-> NoError]

\* AllocatePage(t): pops a record from the FREE_PAGE list, or grows the file
\* when that list is empty, and inserts the page at the head of the t list.
AllocatePage(f, t) ==
    LET free == First(f, FREE_PAGE)
        id   == IF free # 0 THEN free ELSE Len(f.pages) + 1
        rest == IF free # 0 THEN f.pages[free].next ELSE 0
        head == First(f, t)
    IN  IF AnyHeld(f, {id, rest, head})
        THEN [f |-> f, id |-> 0, err |-> ErrAlreadyInUse]
        ELSE LET grown  == IF free # 0 THEN f.pages
                           ELSE Append(f.pages, PageView(FREE_PAGE, 0, 0))
                 popped == SetPrev(grown, rest, 0)
                 linked == SetPrev([popped EXCEPT ![id] = PageView(t, head, 0)],
                                   head, id)
             IN  [f |-> [f EXCEPT !.pages = linked,
                                  !.first = [f.first EXCEPT ![FREE_PAGE] = rest,
                                                            ![t] = id],
                                  !.allocs[t] = @ + 1],
                  id |-> id, err |-> NoError]

\* FreePage(loc): unlinks the page from its list, resets its type to
\* FREE_PAGE and pushes it on the FREE_PAGE list.
FreePage(f, id) ==
    LET pg   == f.pages[id]
        free == First(f, FREE_PAGE)
    IN  IF AnyHeld(f, {id, pg.prev, pg.next, free})
        THEN [f |-> f, err |-> ErrAlreadyInUse]
        ELSE LET unlinked == SetPrev(SetNext(f.pages, pg.prev, pg.next),
                                     pg.next, pg.prev)
                 pushed   == SetPrev([unlinked EXCEPT ![id] =
                                          PageView(FREE_PAGE, free, 0)],
                                     free, id)
                 head     == IF First(f, pg.type) = id THEN pg.next
                             ELSE First(f, pg.type)
             IN  [f |-> [f EXCEPT !.pages = pushed,
                                  !.first = [f.first EXCEPT ![pg.type] = head,
                                                            ![FREE_PAGE] = id],
                                  !.frees = @ + 1],
                  err |-> NoError]

\* Close(): refuses to close while any page record is held.
Close(f) ==
    IF \E id \in 1..MaxRecords : f.holder[id] # "none"
    THEN [f |-> f, err |-> ErrInUse]
    ELSE [f |-> [f EXCEPT !.closed = TRUE], err |-> NoError]

-----------------------------------------------------------------------------
(* The client: Parse, then Plain, then ASTFromPlain, then Plain again; or  *)
(* ASTFromPlain of a plain AST of its own, then Plain.                     *)

NoRes   == [ast |-> Nil, err |-> NoErr, panic |-> FALSE, p |-> NewParser(<<>>, "nil")]
NoPlain == [unset |-> Str("")]
NoAst   == [node |-> Nil, err |-> NoErr]

Init ==
    /\ \/ stage = "lexed" /\ tokens \in TokenStreams /\ plain = NoPlain
       \/ stage = "given" /\ tokens = <<>> /\ plain \in PlainMaps
    /\ res = NoRes
    /\ ast2 = NoAst
    /\ plain2 = NoPlain
    /\ table = astNodeMap
    /\ calls = <<>>
    /\ psf = NoFile /\ out = NoOut

\* res, err := Parse(name, input)
DoParse ==
    /\ stage = "lexed"
    /\ res' = finishParse(table, beginParse(table, tokens, "nil"))
    /\ table' = res'.p.table
    /\ stage' = "parsed"
    /\ UNCHANGED <<tokens, plain, ast2, plain2, calls, psf, out>>

\* res.Plain(), for a result there is
DoPlain ==
    /\ stage = "parsed"
    /\ ~res.panic /\ res.err = NoErr
    /\ plain' = Plain(res.ast)
    /\ stage' = "plain"
    /\ UNCHANGED <<tokens, res, ast2, plain2, table, calls, psf, out>>

\* ASTFromPlain(plain)
DoASTFromPlain ==
    /\ stage \in {"plain", "given"}
    /\ ast2' = ASTFromPlain(plain)
    /\ stage' = IF stage = "plain" THEN "restored" ELSE "givenRestored"
    /\ UNCHANGED <<tokens, res, plain, plain2, table, calls, psf, out>>

\* ast2.Plain(), for a result there is
DoPlainAgain ==
    /\ stage \in {"restored", "givenRestored"}
    /\ ast2.err = NoErr
    /\ plain2' = Plain(ast2.node)
    /\ stage' = IF stage = "restored" THEN "replained" ELSE "givenReplained"
    /\ UNCHANGED <<tokens, res, plain, ast2, table, calls, psf, out>>

Next == DoParse \/ DoPlain \/ DoASTFromPlain \/ DoPlainAgain

Spec == Init /\ [][Next]_vars

-----------------------------------------------------------------------------
(* Concurrent clients: each calls ParseWithRuntime once, on an input and   *)
(* with a runtime provider of its own.  A call is two steps, the creation  *)
(* of the parser with its first p.next(), and p.run(0); the steps of the   *)
(* calls interleave.  All calls work on the one table.                     *)

\* What the clients parse; one input fails.
CallInputs ==
    { <<V("1"), Sym("PLUS"), V("2"), Sym("TIMES"), V("3")>>,
      <<Sym("GET"), K("Song"), Sym("WHERE"), V("name"), Sym("EQ"), V("Aria1")>>,
      <<Sym("SHOW"), V("name"), Sym("AS"), V("Title"), Sym("COMMA"),
        Sym("AT"), V("count"), Sym("LPAREN"), Sym("RPAREN")>>,
      <<Sym("LBRACK"), V("a"), Sym("COMMA"), V("b"), Sym("RBRACK")>>,
      <<Sym("NOT"), V("a")>>,
      <<V("1"), Sym("PLUS")>> }

CallStreams == {Lex(x, "EOF") : x \in CallInputs}

\* nil, or a RuntimeProvider.
RuntimeProviders == {"nil", "rt"}

NoCall ==
    [state |-> "idle", toks |-> <<>>, rp |-> "nil",
     x |-> R(NewParser(<<>>, "nil"), Nil, NoErr), res |-> NoRes]

InitCalls ==
    /\ stage = "calls" /\ tokens = <<>> /\ res = NoRes
    /\ plain = NoPlain /\ ast2 = NoAst /\ plain2 = NoPlain
    /\ table = astNodeMap
    /\ calls = [c \in 1..MaxCalls |-> NoCall]
    /\ psf = NoFile /\ out = NoOut

\* p := &parser{name, nil, Lex(name, input), rp}; node, err := p.next()
BeginParse(c) ==
    /\ calls[c].state = "idle"
    /\ \E toks \in CallStreams, rp \in RuntimeProviders :
          calls' = [calls EXCEPT ![c] =
                       [state |-> "begun", toks |-> toks, rp |-> rp,
                        x |-> beginParse(table, toks, rp), res |-> NoRes]]
    /\ table' = calls'[c].x.p.table
    /\ UNCHANGED <<stage, tokens, res, plain, ast2, plain2, psf, out>>

\* if err != nil { return nil, err }; p.node = node; return p.run(0)
FinishParse(c) ==
    /\ calls[c].state = "begun"
    /\ calls' = [calls EXCEPT ![c].state = "done",
                              ![c].res = finishParse(table, calls[c].x)]
    /\ table' = calls'[c].res.p.table
    /\ UNCHANGED <<stage, tokens, res, plain, ast2, plain2, psf, out>>

NextCalls == \E c \in 1..MaxCalls : BeginParse(c) \/ FinishParse(c)

SpecCalls == InitCalls /\ [][NextCalls]_vars

-----------------------------------------------------------------------------
(* A client of the paged storage, and another caller of the same           *)
(* StorageFile that acquires and releases records.                         *)

\* The storage client does not use the parser: its variables stay empty.
InitPaging ==
    /\ stage = "paging" /\ tokens = <<>> /\ res = <<>>
    /\ plain = <<>> /\ ast2 = <<>> /\ plain2 = <<>>
    /\ table = <<>> /\ calls = <<>>
    /\ psf = NewPagedStorageFile
    /\ out = NoOut

Parser == <<stage, tokens, res, plain, ast2, plain2, table, calls>>

\* psf.AllocatePage(t)
DoAllocatePage ==
    /\ ~psf.closed
    /\ First(psf, FREE_PAGE) # 0 \/ Len(psf.pages) < MaxRecords
    /\ \E t \in PageTypes :
          LET r == AllocatePage(psf, t)
          IN  /\ psf' = r.f
              /\ out' = [NoOut EXCEPT !.op = "AllocatePage", !.err = r.err]
    /\ UNCHANGED Parser

\* psf.FreePage(loc)
DoFreePage ==
    /\ ~psf.closed
    /\ psf.frees < MaxFrees
    /\ \E id \in 1..Len(psf.pages) :
          /\ psf.pages[id].type # FREE_PAGE
          /\ LET r == FreePage(psf, id)
             IN  /\ psf' = r.f
                 /\ out' = [NoOut EXCEPT !.op = "FreePage", !.err = r.err]
    /\ UNCHANGED Parser

\* pc, err := CountPages(psf, t)
DoCountPages ==
    /\ ~psf.closed
    /\ \E t \in PageTypes :
          LET r == CountPages(psf, t)
          IN  /\ psf' = r.f
              /\ out' = [NoOut EXCEPT !.op = "CountPages", !.t = t, !.n = r.n,
                                      !.err = r.err]
    /\ UNCHANGED Parser

\* r, err := sf.Get(id), by the other caller
DoGet ==
    /\ ~psf.closed
    /\ \E id \in 1..Len(psf.pages) :
          LET r == sfGet(psf, id, "ext")
          IN  /\ \/ psf.holder[id] # "none"
                 \/ Cardinality({h \in 1..MaxRecords : psf.holder[h] = "ext"}) < MaxHeld
              /\ psf' = r.f
              /\ out' = [NoOut EXCEPT !.op = "Get", !.id = id, !.err = r.err]
    /\ UNCHANGED Parser

\* sf.ReleaseInUse(r), by the other caller
DoReleaseInUse ==
    /\ ~psf.closed
    /\ \E id \in 1..Len(psf.pages) :
          /\ psf.holder[id] = "ext"
          /\ psf' = ReleaseInUse(psf, id)
          /\ out' = [NoOut EXCEPT !.op = "ReleaseInUse"]
    /\ UNCHANGED Parser

\* psf.Close()
DoClose ==
    /\ ~psf.closed
    /\ LET r == Close(psf)
       IN  /\ psf' = r.f
           /\ out' = [NoOut EXCEPT !.op = "Close", !.err = r.err]
    /\ UNCHANGED Parser

NextPaging ==
    \/ DoAllocatePage \/ DoFreePage \/ DoCountPages
    \/ DoGet \/ DoReleaseInUse \/ DoClose

SpecPaging == InitPaging /\ [][NextPaging]_vars

-----------------------------------------------------------------------------
(* What the properties speak of                                            *)

\* Parse has returned.
Parsed == stage \in {"parsed", "plain", "restored", "replained"}

\* Parse returned an AST and a nil error.
Ok(r) == ~r.panic /\ r.err = NoErr

\* The lexemes of a channel that ends with EOF.
EndsWithEOF(toks) == Len(toks) > 0 /\ toks[Len(toks)].ID = "EOF"
Lexemes(toks) == [i \in 1..(Len(toks) - 1) |-> <<toks[i].ID, toks[i].Val>>]

\* The tree of a node: name, token value, children.
RECURSIVE Shape(_)
Shape(n) ==
    [name |-> n.Name, value |-> n.Token.Val,
     kids |-> [i \in 1..Len(n.Children) |-> Shape(n.Children[i])]]

\* The trees the properties expect, built from tokens: the node names of
\* operands and operators are their token ids.
Leaf(t)      == [name |-> t.ID, value |-> t.Val, kids |-> <<>>]
Op1(t, x)    == [name |-> t.ID, value |-> t.Val, kids |-> <<x>>]
Op2(t, x, y) == [name |-> t.ID, value |-> t.Val, kids |-> <<x, y>>]

\* The nodes of a tree.
RECURSIVE Nodes(_)
Nodes(n) == {n} \cup UNION {Nodes(n.Children[i]) : i \in 1..Len(n.Children)}

\* The token positions of a tree.
Span(n) == {m.Token.Pos : m \in Nodes(n)}

\* The binding powers as the specification tabulates them.
TableBinding(id) ==
    CASE id = "NOT" -> 20
      [] id = "OR" -> 30
      [] id = "AND" -> 40
      [] id \in {"GEQ", "LEQ", "NEQ", "EQ", "GT", "LT", "LIKE", "IN", "CONTAINS",
                 "BEGINSWITH", "ENDSWITH", "CONTAINSNOT", "NOTIN"} -> 60
      [] id \in {"PLUS", "MINUS"} -> 110
      [] id \in {"TIMES", "DIV", "MODINT", "DIVINT"} -> 120
      [] id \in {"LPAREN", "LBRACK"} -> 150
      [] OTHER -> 0

\* The channel holds a o1 b o2 c and EOF.
IsInfixPair(toks) ==
    /\ Len(toks) = 6 /\ toks[6].ID = "EOF"
    /\ \A i \in {1, 3, 5} : toks[i].ID \in {"VALUE", "TRUE", "FALSE", "NULL"}
    /\ \A i \in {2, 4} : toks[i].ID \in InfixIDs

-----------------------------------------------------------------------------
(* C1: of two infix operators in a o1 b o2 c the one with the greater      *)
(* binding power (OR 30 < AND 40 < comparisons 60 < PLUS, MINUS 110 <      *)
(* TIMES, DIV, MODINT, DIVINT 120) takes b: the result is o1(a, o2(b, c))  *)
(* when o1 binds less and o2(o1(a, b), c) when o2 binds less.              *)
C1_Precedence ==
    (Parsed /\ IsInfixPair(tokens)) =>
        LET t == tokens
        IN  /\ TableBinding(t[2].ID) < TableBinding(t[4].ID) =>
                  /\ Ok(res)
                  /\ Shape(res.ast) = Op2(t[2], Leaf(t[1]), Op2(t[4], Leaf(t[3]), Leaf(t[5])))
            /\ TableBinding(t[4].ID) < TableBinding(t[2].ID) =>
                  /\ Ok(res)
                  /\ Shape(res.ast) = Op2(t[4], Op2(t[2], Leaf(t[1]), Leaf(t[3])), Leaf(t[5]))

\* 1 + 2 * 3 has been parsed to (PLUS 1 (TIMES 2 3)).
C1_Witness ==
    /\ stage = "parsed"
    /\ tokens = Lex(<<V("1"), Sym("PLUS"), V("2"), Sym("TIMES"), V("3")>>, "EOF")
    /\ Ok(res)
    /\ Shape(res.ast) =
          [name |-> "PLUS", value |-> "PLUS", kids |->
              << [name |-> "VALUE", value |-> "1", kids |-> <<>>],
                 [name |-> "TIMES", value |-> "TIMES", kids |->
                     << [name |-> "VALUE", value |-> "2", kids |-> <<>>],
                        [name |-> "VALUE", value |-> "3", kids |-> <<>>] >>] >>]

(* C2: infix operators of equal binding power are left-associative:        *)
(* a o1 b o2 c with binding(o1) = binding(o2) is o2(o1(a, b), c), children *)
(* in left-then-right order.                                               *)
C2_LeftAssociative ==
    (Parsed /\ IsInfixPair(tokens)) =>
        LET t == tokens
        IN  TableBinding(t[2].ID) = TableBinding(t[4].ID) =>
                /\ Ok(res)
                /\ Shape(res.ast) = Op2(t[4], Op2(t[2], Leaf(t[1]), Leaf(t[3])), Leaf(t[5]))

\* a AND b AND c (here 1, 2, 3) has been parsed to (AND (AND 1 2) 3), and
\* the mixed pair 1 - 2 + 3 to (PLUS (MINUS 1 2) 3).
C2_Witness ==
    /\ stage = "parsed"
    /\ tokens = Lex(<<V("1"), Sym("AND"), V("2"), Sym("AND"), V("3")>>, "EOF")
    /\ Ok(res)
    /\ res.ast.Name = "AND" /\ res.ast.Children[1].Name = "AND"
    /\ res.ast.Children[2].Token.Val = "3"

(* C3: for an expression E over terminals, prefix and infix operators, a  *)
(* pair of parentheses leaves the result of Parse structurally the same if *)
(* and only if it wraps a range of tokens that is a subtree of Parse(E);   *)
(* no result has a node for the parentheses; and (a o1 b) o2 c is          *)
(* o2(o1(a, b), c), a o1 (b o2 c) is o1(a, o2(b, c)).                      *)

\* The channel holds an expression over terminals, prefix and infix
\* operators, and EOF.
IsExpression(toks) ==
    /\ EndsWithEOF(toks)
    /\ \A i \in 1..(Len(toks) - 1) : toks[i].ID \in TermIDs \cup PrefixIDs \cup InfixIDs

\* Parse took the whole input.
Consumed(r) == r.p.node # Nil /\ r.p.node.Token.ID = "EOF" /\ r.p.tokens = <<>>

\* The ids of the channel.
IDs(toks) == [i \in 1..Len(toks) |-> toks[i].ID]

NoBlockNode(n) == \A m \in Nodes(n) : m.Name \notin {"LPAREN", "RPAREN"}

Operand(id) == id \in {"VALUE", "TRUE", "FALSE", "NULL"}

C3_Parentheses ==
    Parsed =>
       /\ (IsExpression(tokens) /\ Ok(res) /\ Consumed(res)) =>
             \A ij \in Ranges(Len(tokens) - 1) :
                 LET w == Parse(Lex(Wrap(Lexemes(tokens), ij[1], ij[2]), "EOF"))
                 IN  /\ (Ok(w) /\ Shape(w.ast) = Shape(res.ast))
                           <=> (\E n \in Nodes(res.ast) : Span(n) = ij[1]..ij[2])
                     /\ Ok(w) => NoBlockNode(w.ast)
       /\ Ok(res) => NoBlockNode(res.ast)
       /\ LET t == tokens
          IN  /\ ( /\ Len(t) = 8 /\ t[1].ID = "LPAREN" /\ t[5].ID = "RPAREN" /\ t[8].ID = "EOF"
                   /\ Operand(t[2].ID) /\ Operand(t[4].ID) /\ Operand(t[7].ID)
                   /\ t[3].ID \in InfixIDs /\ t[6].ID \in InfixIDs ) =>
                     /\ Ok(res)
                     /\ Shape(res.ast) = Op2(t[6], Op2(t[3], Leaf(t[2]), Leaf(t[4])), Leaf(t[7]))
              /\ ( /\ Len(t) = 8 /\ t[3].ID = "LPAREN" /\ t[7].ID = "RPAREN" /\ t[8].ID = "EOF"
                   /\ Operand(t[1].ID) /\ Operand(t[4].ID) /\ Operand(t[6].ID)
                   /\ t[2].ID \in InfixIDs /\ t[5].ID \in InfixIDs ) =>
                     /\ Ok(res)
                     /\ Shape(res.ast) = Op2(t[2], Leaf(t[1]), Op2(t[5], Leaf(t[4]), Leaf(t[6])))

\* (1 + 2) * 3 has been parsed to (TIMES (PLUS 1 2) 3), which is not what
\* 1 + 2 * 3 gives, and 1 + (2 * 3) gives what 1 + 2 * 3 gives.
C3_Witness ==
    /\ stage = "parsed"
    /\ tokens = Lex(<<Sym("LPAREN"), V("1"), Sym("PLUS"), V("2"), Sym("RPAREN"),
                      Sym("TIMES"), V("3")>>, "EOF")
    /\ Ok(res)
    /\ Shape(res.ast) =
          [name |-> "TIMES", value |-> "TIMES", kids |->
              << [name |-> "PLUS", value |-> "PLUS", kids |->
                     << [name |-> "VALUE", value |-> "1", kids |-> <<>>],
                        [name |-> "VALUE", value |-> "2", kids |-> <<>>] >>],
                 [name |-> "VALUE", value |-> "3", kids |-> <<>>] >>]
    /\ LET e == <<V("1"), Sym("PLUS"), V("2"), Sym("TIMES"), V("3")>>
       IN  /\ Shape(Parse(Lex(e, "EOF")).ast) # Shape(res.ast)
           /\ Shape(Parse(Lex(e, "EOF")).ast) = Shape(Parse(Lex(Wrap(e, 3, 5), "EOF")).ast)

(* C4: a token in prefix position makes a node with exactly one child, the *)
(* operand parsed with right binding = its own binding + 20: a following   *)
(* infix operator is inside the operand if its binding is greater than     *)
(* that, outside if it is less or equal.                                   *)
C4_Prefix ==
    (Parsed /\ EndsWithEOF(tokens)) =>
        LET t == tokens
            ids == IDs(tokens)
        IN  /\ (Len(t) = 3 /\ ids[1] \in PrefixIDs /\ ids[2] = "VALUE") =>
                  Ok(res) /\ Shape(res.ast) = Op1(t[1], Leaf(t[2]))
            /\ (Len(t) = 5 /\ ids[1] \in PrefixIDs /\ ids[2] = "VALUE"
                    /\ ids[3] \in InfixIDs /\ ids[4] = "VALUE") =>
                  /\ Ok(res)
                  /\ Shape(res.ast) =
                        IF TableBinding(ids[3]) > TableBinding(ids[1]) + 20
                        THEN Op1(t[1], Op2(t[3], Leaf(t[2]), Leaf(t[4])))
                        ELSE Op2(t[3], Op1(t[1], Leaf(t[2])), Leaf(t[4]))
            /\ (Len(t) = 5 /\ ids[1] = "VALUE" /\ ids[2] \in InfixIDs
                    /\ ids[3] \in PrefixIDs /\ ids[4] = "VALUE") =>
                  Ok(res) /\ Shape(res.ast) = Op2(t[2], Leaf(t[1]), Op1(t[3], Leaf(t[4])))
            /\ (Len(t) = 4 /\ ids[1] \in PrefixIDs /\ ids[2] \in PrefixIDs /\ ids[3] = "VALUE") =>
                  Ok(res) /\ Shape(res.ast) = Op1(t[1], Op1(t[2], Leaf(t[3])))
            /\ Ok(res) =>
                  \A n \in Nodes(res.ast) :
                      /\ n.Name \in PrefixIDs \ InfixIDs => Len(n.Children) = 1
                      /\ n.Name \in PrefixIDs \cap InfixIDs => Len(n.Children) \in {1, 2}

\* NOT a EQ b has been parsed to NOT(EQ(a, b)).
C4_Witness ==
    /\ stage = "parsed"
    /\ tokens = Lex(<<Sym("NOT"), V("a"), Sym("EQ"), V("b")>>, "EOF")
    /\ Ok(res)
    /\ res.ast.Name = "NOT" /\ Len(res.ast.Children) = 1
    /\ res.ast.Children[1].Name = "EQ" /\ Len(res.ast.Children[1].Children) = 2

(* C5: get <Kind> where <attr> = <value> gives a node GET whose first      *)
(* child is built from the NODEKIND token and carries the kind, and whose  *)
(* second child is WHERE with the one child EQ(VALUE attr, VALUE value);   *)
(* the children of every GET node are in source order.  The first child    *)
(* is named VALUE.                                                         *)

\* The channel holds get <Kind> where <attr> = <value> and EOF.
IsGetWhere(toks) ==
    IDs(toks) = <<"GET", "NODEKIND", "WHERE", "VALUE", "EQ", "VALUE", "EOF">>

\* The children of n are in source order.
InSourceOrder(n) ==
    \A i \in 1..Len(n.Children) :
        /\ \A x \in Span(n.Children[i]) : x > n.Token.Pos
        /\ \A j \in (i + 1)..Len(n.Children) :
               \A x \in Span(n.Children[i]), y \in Span(n.Children[j]) : x < y

\* What holds of every GET node, but for the name of its first child.
GetNodes(kindName) ==
    /\ IsGetWhere(tokens) =>
          /\ Ok(res)
          /\ Shape(res.ast) =
                [name |-> "GET", value |-> tokens[1].Val, kids |->
                    << [name |-> kindName, value |-> tokens[2].Val, kids |-> <<>>],
                       [name |-> "WHERE", value |-> tokens[3].Val, kids |->
                           << Op2(tokens[5], Leaf(tokens[4]), Leaf(tokens[6])) >>] >>]
    /\ Ok(res) =>
          \A n \in Nodes(res.ast) :
              n.Name = "GET" =>
                  /\ Len(n.Children) >= 1
                  /\ n.Children[1].Token.ID = "NODEKIND"
                  /\ n.Children[1].Token.Pos = n.Token.Pos + 1
                  /\ n.Children[1].Name = kindName
                  /\ n.Children[1].Children = <<>>
                  /\ InSourceOrder(n)
                  /\ Consumed(res)

C5_GetShape == Parsed => GetNodes("VALUE")

\* C5 as stated: the first child of a GET node is named NODEKIND.
C5_FirstChildNamedNODEKIND == Parsed => GetNodes("NODEKIND")

\* get Song where name = Aria1 has been parsed.
C5_Witness ==
    /\ stage = "parsed"
    /\ tokens = Lex(<<Sym("GET"), K("Song"), Sym("WHERE"), V("name"), Sym("EQ"), V("Aria1")>>, "EOF")
    /\ Ok(res)
    /\ res.ast.Name = "GET" /\ Len(res.ast.Children) = 2
    /\ res.ast.Children[1].Token.Val = "Song"
    /\ res.ast.Children[2].Name = "WHERE"

(* C6: Parse fails with UnexpectedEnd and returns no AST when the input   *)
(* ends where a further token is required: empty input, a statement        *)
(* keyword without its mandatory operand, an infix or prefix operator      *)
(* without its right operand, a missing closing RPAREN or RBRACK.  Cutting *)
(* an input that parses short never gives another error.                   *)

\* How many of the lexemes have the id.
Count(syms, id) == Cardinality({i \in 1..Len(syms) : syms[i][1] = id})

\* The keywords after which a token is required.
OperandKeywords ==
    {"GET", "LOOKUP", "FROM", "GROUP", "TRAVERSE", "AT", "ORDERING", "FILTERING", "NULLTRAVERSAL"}

\* The lexemes end where a further token is required.
EndsEarly(syms) ==
    \/ syms = <<>>
    \/ syms # <<>> /\ syms[Len(syms)][1] \in OperandKeywords \cup InfixIDs \cup PrefixIDs
    \/ Len(syms) >= 2 /\ syms[Len(syms) - 1][1] \in {"LOOKUP", "AT"}
    \/ Count(syms, "LPAREN") > Count(syms, "RPAREN")
    \/ Count(syms, "LBRACK") > Count(syms, "RBRACK")

UnexpectedEnd(r) == ~r.panic /\ r.err.Type = "ErrUnexpectedEnd" /\ r.ast = Nil

C6_UnexpectedEnd ==
    (Parsed /\ EndsWithEOF(tokens)) =>
       /\ (Ok(res) /\ Consumed(res)) =>
             \A k \in 0..(Len(tokens) - 2) :
                 LET cut == SubSeq(Lexemes(tokens), 1, k)
                     r == Parse(Lex(cut, "EOF"))
                 IN  /\ Ok(r) \/ UnexpectedEnd(r)
                     /\ EndsEarly(cut) => UnexpectedEnd(r)
       /\ IDs(tokens) \in { <<"EOF">>, <<"GET", "EOF">>, <<"LOOKUP", "NODEKIND", "EOF">>,
                            <<"VALUE", "PLUS", "EOF">>, <<"PLUS", "EOF">>, <<"NOT", "EOF">>,
                            <<"LPAREN", "VALUE", "PLUS", "VALUE", "EOF">>,
                            <<"LBRACK", "VALUE", "EOF">> }
             => UnexpectedEnd(res)

\* Parse of ( 1 + 2 has failed with UnexpectedEnd.
C6_Witness ==
    /\ stage = "parsed"
    /\ IDs(tokens) = <<"LPAREN", "VALUE", "PLUS", "VALUE", "EOF">>
    /\ res.err.Type = "ErrUnexpectedEnd"
    /\ res.ast = Nil

(* C7: no error is swallowed and errors are terminal: if any step of a    *)
(* parse makes an error, Parse returns the first error made and no AST,    *)
(* and pulls no token and changes no node after that error.                *)
C7_ErrorsTerminal ==
    (Parsed /\ res.p.raised # <<>>) =>
        LET first == res.p.raised[1]
        IN  /\ ~res.panic
            /\ res.err = first.err
            /\ res.ast = Nil
            /\ res.p.pulls = first.pulls
            /\ res.p.muts = first.muts

(* C8: for every node n of a successful Parse, ASTFromPlain(Plain(n))      *)
(* succeeds and has the name, the token value and the children of n, in    *)
(* order, recursively; its tokens are synthetic.                           *)
C8_PlainThenAST ==
    /\ stage = "restored" =>
          /\ ast2.err = NoErr
          /\ Shape(ast2.node) = Shape(res.ast)
          /\ \A m \in Nodes(ast2.node) : m.Token = LexToken("General", 0, m.Token.Val, 0, 0)
    /\ (stage = "parsed" /\ Ok(res)) =>
          \A n \in Nodes(res.ast) :
              LET back == ASTFromPlain(Plain(n))
              IN  back.err = NoErr /\ Shape(back.node) = Shape(n)

\* The AST of get Song where name = Aria1 has come back from its plain form.
C8_Witness ==
    /\ stage = "restored"
    /\ IsGetWhere(tokens)
    /\ ast2.err = NoErr
    /\ ast2.node.Name = "GET" /\ Len(ast2.node.Children) = 2
    /\ ast2.node.Children[2].Children[1].Name = "EQ"
    /\ ast2.node.Children[2].Children[1].Children[2].Token.Val = tokens[6].Val

(* C9: Plain(ASTFromPlain(m)) equals m, key for key, for every well-formed *)
(* plain AST m whose names and values are strings and whose children       *)
(* lists, where there are any, are not empty.  For every well-formed m it  *)
(* is m with names and values printed and empty children lists left out.   *)
RECURSIVE WellFormed(_)
RECURSIVE Canonical(_)
RECURSIVE Normal(_)

\* A map with a name, a value and an optional list of well-formed children.
WellFormed(m) ==
    /\ {"name", "value"} \subseteq DOMAIN m
    /\ DOMAIN m \subseteq {"name", "value", "children"}
    /\ "children" \in DOMAIN m => \A i \in 1..Len(m.children) : WellFormed(m.children[i])

\* Well-formed, the name and the value strings, no empty children list.
Canonical(m) ==
    /\ WellFormed(m)
    /\ m.name.type = "string" /\ m.value.type = "string"
    /\ "children" \in DOMAIN m =>
          /\ m.children # <<>>
          /\ \A i \in 1..Len(m.children) : Canonical(m.children[i])

\* m with names and values printed and empty children lists left out.
Normal(m) ==
    IF "children" \in DOMAIN m /\ m.children # <<>>
    THEN [name     |-> Str(Sprint(m.name)),
          children |-> [i \in 1..Len(m.children) |-> Normal(m.children[i])],
          value    |-> Str(Sprint(m.value))]
    ELSE [name |-> Str(Sprint(m.name)), value |-> Str(Sprint(m.value))]

C9_RoundTrip ==
    /\ (stage \in {"givenRestored", "givenReplained"} /\ WellFormed(plain)) => ast2.err = NoErr
    /\ (stage = "givenReplained" /\ WellFormed(plain)) =>
          /\ plain2 = Normal(plain)
          /\ Canonical(plain) <=> plain2 = plain

\* C9 as stated: every well-formed m comes back key for key.
C9_EveryWellFormed ==
    (stage = "givenReplained" /\ WellFormed(plain)) => plain2 = plain

\* A plain AST with children has come back key for key.
C9_Witness ==
    /\ stage = "givenReplained"
    /\ Canonical(plain)
    /\ "children" \in DOMAIN plain
    /\ "children" \in DOMAIN plain.children[1]
    /\ plain2 = plain

(* C10: a SHOW node has one SHOWTERM child per comma-separated show-term,  *)
(* in source order; a SHOWTERM is built from a VALUE token or from an AT   *)
(* token, and then its first child is the FUNC node; "as X" adds an AS     *)
(* child with the one child VALUE X, "format F" a FORMAT child with the    *)
(* one child VALUE F, AS before FORMAT.                                    *)

\* The children of a SHOWTERM after the function.
Suffixes(st) ==
    IF st.Token.ID = "AT" THEN SubSeq(st.Children, 2, Len(st.Children)) ELSE st.Children

ShowTermAsSpecified(st) ==
    /\ st.Name = "SHOWTERM"
    /\ st.Token.ID \in {"VALUE", "AT"}
    /\ st.Token.ID = "AT" => Len(st.Children) >= 1 /\ st.Children[1].Name = "FUNC"
    /\ [i \in 1..Len(Suffixes(st)) |-> Suffixes(st)[i].Name]
           \in {<<>>, <<"AS">>, <<"FORMAT">>, <<"AS", "FORMAT">>}
    /\ \A i \in 1..Len(Suffixes(st)) :
           /\ Len(Suffixes(st)[i].Children) = 1
           /\ Suffixes(st)[i].Children[1].Name = "VALUE"
           /\ Suffixes(st)[i].Children[1].Token.ID = "VALUE"

\* The commas of a show clause whose functions have no arguments.
Commas(n) ==
    {i \in 1..Len(tokens) : /\ tokens[i].ID = "COMMA"
                            /\ \E x \in Span(n), y \in Span(n) : x < i /\ i < y}

C10_ShowTerms ==
    (Parsed /\ Ok(res)) =>
        \A n \in Nodes(res.ast) :
            n.Name = "SHOW" =>
                /\ \A i \in 1..Len(n.Children) : ShowTermAsSpecified(n.Children[i])
                /\ InSourceOrder(n)
                /\ n.Children # <<>> => Len(n.Children) = Cardinality(Commas(n)) + 1

(* C11: @name(args) gives a node FUNC built from the AT token whose first *)
(* child is the VALUE with the name and whose further children are the     *)
(* arguments, VALUE tokens separated by COMMA, in source order; LPAREN and  *)
(* RPAREN are required, else UnexpectedToken or UnexpectedEnd.  @count()    *)
(* gives FUNC with the one child VALUE count.                              *)

\* ( ), ( VALUE ), ( VALUE , VALUE ) ...
IsArgumentList(ids) ==
    /\ Len(ids) >= 2 /\ ids[1] = "LPAREN" /\ ids[Len(ids)] = "RPAREN"
    /\ Len(ids) = 2 \/ Len(ids) % 2 = 1
    /\ \A i \in 2..(Len(ids) - 1) : ids[i] = IF i % 2 = 0 THEN "VALUE" ELSE "COMMA"

\* The channel holds @, a name and tokens out of ( ) , and values, and EOF.
IsCallInput(toks) ==
    /\ EndsWithEOF(toks) /\ Len(toks) >= 3
    /\ toks[1].ID = "AT" /\ toks[2].ID = "VALUE"
    /\ \A i \in 3..(Len(toks) - 1) : toks[i].ID \in {"LPAREN", "RPAREN", "VALUE", "COMMA"}

\* The ids after the name, before EOF.
CallTail(toks) == SubSeq(IDs(toks), 3, Len(toks) - 1)

\* The VALUE nodes of the tokens at the positions.
ValuesAt(toks, positions) == [i \in 1..Len(positions) |-> Leaf(toks[positions[i]])]

\* The positions of the arguments of an argument list that starts at 3.
ArgumentPositions(n) == [i \in 1..((n - 1) \div 2) |-> 2 + 2 * i]

\* nameIsChild: the name is the first child of a node named FUNC; else
\* the node is named by the name and has the arguments only.
FuncNodes(nameIsChild) ==
    /\ IsCallInput(tokens) =>
          LET tail == CallTail(tokens)
          IN  /\ IsArgumentList(tail) =>
                    /\ Ok(res) /\ Consumed(res)
                    /\ res.ast.Token = tokens[1]
                    /\ Shape(res.ast) =
                          IF nameIsChild
                          THEN [name |-> "FUNC", value |-> tokens[1].Val, kids |->
                                   <<Leaf(tokens[2])>> \o ValuesAt(tokens, ArgumentPositions(Len(tail)))]
                          ELSE [name |-> tokens[2].Val, value |-> tokens[1].Val, kids |->
                                   ValuesAt(tokens, ArgumentPositions(Len(tail)))]
              /\ (~\E k \in 1..Len(tail) : IsArgumentList(SubSeq(tail, 1, k))) =>
                    /\ ~res.panic /\ res.ast = Nil
                    /\ res.err.Type \in {"ErrUnexpectedToken", "ErrUnexpectedEnd"}
    /\ Ok(res) =>
          \A n \in Nodes(res.ast) :
              (n.Token.ID = "AT" /\ n.Name # "SHOWTERM") =>
                  /\ n.Name = IF nameIsChild THEN "FUNC" ELSE n.Children[1].Token.Val
                  /\ Len(n.Children) >= 1
                  /\ \A i \in 1..Len(n.Children) :
                         /\ n.Children[i].Name = "VALUE" /\ n.Children[i].Token.ID = "VALUE"
                         /\ n.Children[i].Children = <<>>
                  /\ n.Children[1].Token.Pos = n.Token.Pos + 1
                  /\ InSourceOrder(n)

C11_Func == Parsed => FuncNodes(TRUE)

\* C11 as stated: the FUNC node is named by the VALUE that follows AT and
\* has the arguments only; for @count() it has no VALUE children.
C11_NamedByValue == Parsed => FuncNodes(FALSE)

\* @count(a, a) has been parsed to FUNC(count, a, a), and @count() before
\* that is FUNC(count).
C11_Witness ==
    /\ stage = "parsed"
    /\ IDs(tokens) = <<"AT", "VALUE", "LPAREN", "VALUE", "COMMA", "VALUE", "RPAREN", "EOF">>
    /\ Ok(res)
    /\ res.ast.Name = "FUNC" /\ Len(res.ast.Children) = 3
    /\ res.ast.Children[1].Token.Val = "count"
    /\ Len(Parse(Lex(<<Sym("AT"), V("count"), Sym("LPAREN"), Sym("RPAREN")>>, "EOF")).ast.Children) = 1

(* C12: in every AST of a successful Parse every node has a token; the   *)
(* nodes of the terminals (VALUE, also for a NODEKIND token, TRUE, FALSE,  *)
(* NULL) have no children; a node made by the prefix denotation has one    *)
(* child, a node made by the infix denotation two, the left operand first; *)
(* PLUS and MINUS have one or two.  A SHOWTERM carries a VALUE token and   *)
(* may have children.                                                      *)
TerminalTokens == {"VALUE", "NODEKIND", "TRUE", "FALSE", "NULL"}

\* n has the two children left and right of its token.
LeftThenRight(n) ==
    /\ Len(n.Children) = 2
    /\ n.Children[1].Token.Pos < n.Token.Pos
    /\ \A x \in Span(n.Children[1]) : x <= n.Token.Pos
    /\ \A x \in Span(n.Children[2]) : x > n.Token.Pos

\* n has one child, right of its token.
OneOperand(n) ==
    /\ Len(n.Children) = 1
    /\ \A x \in Span(n.Children[1]) : x > n.Token.Pos

\* A node was made by a prefix or infix denotation if it is named after
\* such a token (SHOWTERM, LIST, FUNC and VALUE nodes are named otherwise).
NodeInvariant(childless(_)) ==
    Ok(res) =>
        \A n \in Nodes(res.ast) :
            /\ n.Token # Nil /\ n.Token \in {tokens[i] : i \in 1..Len(tokens)}
            /\ childless(n) => n.Children = <<>>
            /\ n.Name \in PrefixIDs \ InfixIDs => OneOperand(n)
            /\ n.Name \in InfixIDs \ PrefixIDs => LeftThenRight(n)
            /\ n.Name \in InfixIDs \cap PrefixIDs => OneOperand(n) \/ LeftThenRight(n)

C12_NodeInvariant ==
    Parsed => NodeInvariant(LAMBDA n : n.Token.ID \in TerminalTokens /\ n.Name # "SHOWTERM")

\* C12 as stated: every node built from a terminal token has no children.
C12_TerminalTokenChildless ==
    Parsed => NodeInvariant(LAMBDA n : n.Token.ID \in TerminalTokens)

\* get Song where not a and b has been parsed: the nodes of Song, a and b
\* have no children, NOT has one and AND two.
C12_Witness ==
    /\ stage = "parsed"
    /\ IDs(tokens) = <<"GET", "NODEKIND", "WHERE", "NOT", "VALUE", "AND", "VALUE", "EOF">>
    /\ Ok(res)
    /\ \E n \in Nodes(res.ast) : n.Name = "AND" /\ LeftThenRight(n) /\ n.Children[1].Name = "NOT"
    /\ \E n \in Nodes(res.ast) : n.Name = "NOT" /\ OneOperand(n)
    /\ \E n \in Nodes(res.ast) : n.Token.ID = "NODEKIND" /\ n.Children = <<>>

(* C13: Parse calls are independent and the token table is immutable      *)
(* after initialisation: whatever calls are made, one after the other or   *)
(* interleaved, no row of astNodeMap is modified, every node of a result   *)
(* is a fresh copy, and the result of a call is that of the same call      *)
(* made alone: it depends on its input and runtime provider only.          *)
C13_Independent ==
    /\ table = astNodeMap
    /\ \A id \in DOMAIN table :
           /\ table[id].Token = Nil /\ table[id].Children = <<>>
           /\ table[id].Runtime = "nil"
    /\ \A c \in DOMAIN calls :
           calls[c].state = "done" =>
               LET alone == ParseWithRuntime(calls[c].toks, calls[c].rp)
               IN  /\ calls[c].res.ast = alone.ast
                   /\ calls[c].res.err = alone.err
                   /\ calls[c].res.panic = alone.panic
                   /\ Ok(alone) =>
                         \A n \in Nodes(alone.ast) :
                             /\ n.home = "heap"
                             /\ n.Runtime = IF calls[c].rp = "nil" THEN "nil"
                                            ELSE <<calls[c].rp, n.Name>>
    /\ Parsed => res.ast = Parse(tokens).ast /\ res.err = Parse(tokens).err

\* The second call has run from start to end, with a runtime provider,
\* while the first call, without one, was under way; both gave an AST.
C13_Witness ==
    /\ DOMAIN calls = 1..MaxCalls
    /\ calls[1].state = "begun" /\ calls[1].rp = "nil"
    /\ calls[1].x.node.Name = "GET"
    /\ calls[2].state = "done" /\ calls[2].rp = "rt"
    /\ Ok(calls[2].res) /\ calls[2].res.ast.Name = "PLUS"
    /\ Len(calls[2].res.ast.Children) = 2


-----------------------------------------------------------------------------
(* Page counting                                                           *)

\* The pages of type t, found by their type tag rather than by the links.
PagesOfType(f, t) == {id \in 1..Len(f.pages) : f.pages[id].type = t}

\* The records held by the other caller.
HeldOutside(f) == {id \in 1..MaxRecords : f.holder[id] = "ext"}

\* CountPages has just returned; no list and no hold has changed since.
Counted == stage = "paging" /\ out.op = "CountPages"

\* C14: when no page record is held, CountPages(t) returns the number of
\* pages on the t list and no error: 0 on a fresh file, and k after k
\* successive AllocatePage(t) calls on it.
C14_CountPages ==
    (Counted /\ HeldOutside(psf) = {}) =>
        /\ out.err = NoError
        /\ out.n = Cardinality(PagesOfType(psf, out.t))
        /\ psf.frees = 0 => out.n = psf.allocs[out.t]

C14_Witness ==
    /\ Counted /\ HeldOutside(psf) = {}
    /\ psf.frees = 0
    /\ out.t = "DATA_PAGE" /\ out.n = MaxRecords /\ out.err = NoError

\* C15: while a record of the walked list is held by another caller,
\* CountPages returns (-1, AlreadyInUse), and only then; the walk itself
\* leaves no record held, so a Get fails only on a record the other caller
\* holds, and Close succeeds once the other caller holds nothing.
C15_AlreadyInUse ==
    stage = "paging" =>
        /\ \A id \in 1..MaxRecords : psf.holder[id] # "walk"
        /\ Counted =>
              IF HeldOutside(psf) \cap PagesOfType(psf, out.t) # {}
              THEN out.n = -1 /\ out.err = ErrAlreadyInUse
              ELSE out.n >= 0 /\ out.err = NoError
        /\ (out.op = "Get" /\ out.err # NoError) => out.id \in HeldOutside(psf)
        /\ (out.op = "Get" /\ out.err = NoError) => out.id \in HeldOutside(psf)
        /\ out.op = "Close" => (out.err = NoError <=> psf.closed)
        /\ (out.op = "Close" /\ HeldOutside(psf) = {}) => out.err = NoError

\* Five DATA pages, record 3 held: CountPages fails.
C15_Witness ==
    /\ Counted /\ out.t = "DATA_PAGE"
    /\ Cardinality(PagesOfType(psf, "DATA_PAGE")) = MaxRecords
    /\ HeldOutside(psf) = {3}
    /\ out.n = -1 /\ out.err = ErrAlreadyInUse



-----------------------------------------------------------------------------
(* Tokens without a denotation                                             *)

\* The tokens the table gives no null denotation, and those it gives a
\* binding but no left denotation.
InfixOnly ==
    {"OR", "AND", "GEQ", "LEQ", "NEQ", "EQ", "GT", "LT", "LIKE", "IN", "CONTAINS",
     "BEGINSWITH", "ENDSWITH", "CONTAINSNOT", "NOTIN", "TIMES", "DIV", "MODINT",
     "DIVINT"}
NoNullDenotation ==
    InfixOnly \cup {"COMMA", "RPAREN", "RBRACK", "GROUP", "END", "AS", "FORMAT"}
NoLeftDenotation == {"NOT", "LPAREN", "LBRACK"}

\* The error run reports for the token at position i, unless the advance
\* past it has failed: then the error of the advance.
ErrorAt(kind, toks, i) ==
    IF Len(toks) = i
    THEN newParserError("ErrUnexpectedEnd", "", ZeroToken)
    ELSE IF toks[i + 1].ID = "Error"
    THEN newParserError("ErrLexicalError", toks[i + 1].Val, toks[i + 1])
    ELSE IF toks[i + 1].ID \notin DOMAIN astNodeMap
    THEN newParserError("ErrUnknownToken", toks[i + 1].Val, toks[i + 1])
    ELSE newParserError(kind, toks[i].Val, toks[i])

\* The channel starts with these token ids.
StartsWith(toks, ids) == Len(toks) >= Len(ids) /\ SubSeq(IDs(toks), 1, Len(ids)) = ids

\* C16: in run, a token in operand position without a null denotation gives
\* ImpossibleNullDenotation; a token after a complete operand that binds
\* more than rightBinding and has no left denotation gives
\* ImpossibleLeftDenotation; a token after the operand that does not bind
\* more than rightBinding is left unconsumed and ends the loop without
\* error.  The parser has advanced past the offending token by then, and an
\* error of that advance is the one reported.
C16_Denotations ==
    Parsed =>
        /\ \A x \in NoNullDenotation :
              /\ StartsWith(tokens, <<x>>) =>
                    ~res.panic /\ res.ast = Nil
                    /\ res.err = ErrorAt("ErrImpossibleNullDenotation", tokens, 1)
              /\ StartsWith(tokens, <<"VALUE", "PLUS", x>>) =>
                    ~res.panic /\ res.ast = Nil
                    /\ res.err = ErrorAt("ErrImpossibleNullDenotation", tokens, 3)
        /\ \A x \in NoLeftDenotation :
              /\ StartsWith(tokens, <<"VALUE", x>>) =>
                    ~res.panic /\ res.ast = Nil
                    /\ res.err = ErrorAt("ErrImpossibleLeftDenotation", tokens, 2)
              /\ StartsWith(tokens, <<"VALUE", "PLUS", "VALUE", x>>) =>
                    ~res.panic /\ res.ast = Nil
                    /\ res.err = ErrorAt("ErrImpossibleLeftDenotation", tokens, 4)
        /\ \A x \in DOMAIN astNodeMap :
              (astNodeMap[x].binding = 0 /\ StartsWith(tokens, <<"VALUE", x>>)) =>
                    /\ Ok(res) /\ Shape(res.ast) = Leaf(tokens[1])
                    /\ res.p.node.Token = tokens[2]
                    /\ res.p.pulls = 2
        /\ \A x \in DOMAIN astNodeMap :
              (astNodeMap[x].binding = 0
                 /\ StartsWith(tokens, <<"VALUE", "PLUS", "VALUE", x>>)) =>
                    /\ Ok(res) /\ Len(res.ast.Children) = 2
                    /\ res.p.node.Token = tokens[4]
                    /\ res.p.pulls = 4

\* 'a not b': NOT follows a complete operand and has no left denotation.
C16_Witness ==
    /\ Parsed
    /\ IDs(tokens) = <<"VALUE", "NOT", "VALUE", "EOF">>
    /\ res.err.Type = "ErrImpossibleLeftDenotation" /\ res.err.Pos = 2



-----------------------------------------------------------------------------
(* Traversals                                                              *)

\* The channel holds a statement made of traversal clauses, and EOF.
RECURSIVE TraverseClauses(_, _)
TraverseClauses(toks, i) ==
    CASE i > Len(toks) -> FALSE
      [] toks[i].ID = "EOF" -> i = Len(toks)
      [] toks[i].ID = "END" -> TraverseClauses(toks, i + 1)
      [] toks[i].ID \in {"TRAVERSE", "WHERE", "PRIMARY"} ->
            /\ i < Len(toks) /\ toks[i + 1].ID = "VALUE"
            /\ TraverseClauses(toks, i + 2)
      [] OTHER -> FALSE

IsTraverseInput(toks) ==
    IF StartsWith(toks, <<"GET", "NODEKIND">>) THEN TraverseClauses(toks, 3)
    ELSE TraverseClauses(toks, 1)

\* The children the clauses from position i on give the construct they are
\* in, which is a TRAVERSE (open) or not: an END closes the TRAVERSE, and is
\* stray elsewhere (ok = FALSE); next is the position after the construct.
RECURSIVE Level(_, _, _)
Level(toks, i, open) ==
    CASE toks[i].ID = "EOF" -> [kids |-> <<>>, next |-> i, ok |-> TRUE]
      [] toks[i].ID = "END" ->
            IF open THEN [kids |-> <<>>, next |-> i + 1, ok |-> TRUE]
            ELSE [kids |-> <<>>, next |-> i, ok |-> FALSE]
      [] toks[i].ID = "TRAVERSE" ->
            LET inner == Level(toks, i + 2, TRUE)
                more  == Level(toks, inner.next, open)
            IN  [kids |-> <<[name |-> "TRAVERSE", value |-> toks[i].Val,
                             kids |-> <<Leaf(toks[i + 1])>> \o inner.kids]>>
                           \o more.kids,
                 next |-> more.next, ok |-> more.ok]
      [] OTHER ->
            LET more == Level(toks, i + 2, open)
            IN  [kids |-> <<Op1(toks[i], Leaf(toks[i + 1]))>> \o more.kids,
                 next |-> more.next, ok |-> more.ok]

\* An END at a place where no TRAVERSE is open.
RECURSIVE StrayEnd(_, _, _)
StrayEnd(toks, i, depth) ==
    IF i > Len(toks) THEN FALSE
    ELSE CASE toks[i].ID = "TRAVERSE" -> StrayEnd(toks, i + 1, depth + 1)
           [] toks[i].ID = "END" -> depth = 0 \/ StrayEnd(toks, i + 1, depth - 1)
           [] OTHER -> StrayEnd(toks, i + 1, depth)

\* The tree of 'get Song' and the clauses after it.
GetTree(toks) ==
    [name |-> "GET", value |-> toks[1].Val,
     kids |-> <<[name |-> "VALUE", value |-> toks[2].Val, kids |-> <<>>]>>
                 \o Level(toks, 3, FALSE).kids]

\* Inside a GET statement the traversals nest as said, and a stray END is
\* an error.
TraverseInGet ==
    (Parsed /\ IsTraverseInput(tokens) /\ tokens[1].ID = "GET") =>
        IF StrayEnd(tokens, 1, 0) THEN ~res.panic /\ res.err # NoErr
        ELSE Ok(res) /\ Shape(res.ast) = GetTree(tokens)

\* A statement that starts with TRAVERSE: the node has the clauses up to its
\* END or EOF.
TraverseOnTop ==
    (Parsed /\ IsTraverseInput(tokens) /\ tokens[1].ID = "TRAVERSE") =>
        (Ok(res) => Shape(res.ast) = Head(Level(tokens, 1, TRUE).kids))

\* C17: a TRAVERSE node has the traversal-spec VALUE as its first child, then
\* every expression up to the first END or EOF at its nesting level; an END
\* is consumed by the innermost open TRAVERSE and gives no node, so clauses
\* after it are children of the enclosing construct; without END every
\* clause up to EOF is a child of the TRAVERSE; an END with no open TRAVERSE
\* is an error.
C17_Traverse ==
    /\ TraverseInGet
    /\ TraverseOnTop
    /\ (Parsed /\ IsTraverseInput(tokens) /\ StrayEnd(tokens, 1, 0)) =>
           ~res.panic /\ res.err # NoErr



-----------------------------------------------------------------------------
(* Lists                                                                   *)

\* The channel holds '[', then values, commas and ']'s, and EOF.
IsListInput(toks) ==
    /\ EndsWithEOF(toks) /\ toks[1].ID = "LBRACK"
    /\ \A i \in 2..(Len(toks) - 1) : toks[i].ID \in {"VALUE", "COMMA", "RBRACK"}

\* The position of the first ']', or 0.
FirstRBRACK(toks) ==
    IF \E i \in 1..Len(toks) : toks[i].ID = "RBRACK"
    THEN CHOOSE i \in 1..Len(toks) :
             /\ toks[i].ID = "RBRACK"
             /\ \A j \in 1..(i - 1) : toks[j].ID # "RBRACK"
    ELSE 0

\* e1, e2, ..., en with n >= 0: values with one comma between neighbours.
IsElements(ids) ==
    /\ ids = <<>> \/ Len(ids) % 2 = 1
    /\ \A i \in 1..Len(ids) : ids[i] = IF i % 2 = 1 THEN "VALUE" ELSE "COMMA"

\* What is between the '[' and the first ']'.
Elements(toks) == SubSeq(IDs(toks), 2, FirstRBRACK(toks) - 1)

\* The node of the list '[e1, ..., en]' that fills the channel.
ListTree(toks) ==
    [name |-> "LIST", value |-> toks[1].Val,
     kids |-> ValuesAt(toks, [i \in 1..((Len(toks) - 2) \div 2) |-> 2 * i])]

\* A well-formed list gives the LIST node of its elements.
ListAsSaid ==
    (Parsed /\ IsListInput(tokens)
       /\ FirstRBRACK(tokens) = Len(tokens) - 1 /\ IsElements(Elements(tokens))) =>
        /\ Ok(res)
        /\ Shape(res.ast) = ListTree(tokens)
        /\ res.ast.Token = tokens[1]

\* A list without ']' is an error.
ListUnclosed ==
    (Parsed /\ IsListInput(tokens) /\ FirstRBRACK(tokens) = 0) =>
        ~res.panic /\ res.err # NoErr

\* C18: '[e1, e2, ..., en]' (n >= 0) gives a node LIST carrying the LBRACK
\* token whose children are e1..en in source order, with no LBRACK, RBRACK
\* or COMMA node; elements without a COMMA between them, a COMMA not
\* followed by an element, and a missing RBRACK are errors.
C18_List ==
    /\ ListAsSaid
    /\ ListUnclosed
    /\ (Parsed /\ IsListInput(tokens)
          /\ FirstRBRACK(tokens) # 0 /\ ~IsElements(Elements(tokens))) =>
           ~res.panic /\ res.err # NoErr



-----------------------------------------------------------------------------
(* Termination                                                             *)

\* A channel the lexer can fill: tokens of the table, then EOF or Error.
LexerStream(toks) ==
    /\ Len(toks) > 0
    /\ toks[Len(toks)].ID \in {"EOF", "Error"}
    /\ \A i \in 1..(Len(toks) - 1) : toks[i].ID \in LexerTokens

\* Every receive from the channel takes a token or finds the channel
\* closed, and no loop goes on after that: Parse receives at most once more
\* than there are tokens.
ConsumesEachTime == Parsed => res.p.pulls <= Len(tokens) + 1

\* C19: on every finite token stream that ends with EOF or with an Error
\* token Parse returns an AST or an error after finitely many steps, every
\* iteration of every loop consuming at least one token.
C19_Terminates ==
    /\ ConsumesEachTime
    /\ (Parsed /\ LexerStream(tokens)) =>
           /\ ~res.panic
           /\ res.ast # Nil \/ res.err # NoErr



-----------------------------------------------------------------------------
(* The whole input                                                         *)

\* A GET or LOOKUP statement that parses has been read up to EOF.
StatementConsumed ==
    (Parsed /\ Ok(res) /\ tokens[1].ID \in {"GET", "LOOKUP"}) => Consumed(res)

\* C20: whenever Parse returns successfully the whole input has been
\* consumed: the parser's current token is EOF and no token before EOF is
\* left unread, for GET and LOOKUP statements and for bare expressions.
C20_WholeInput ==
    /\ StatementConsumed
    /\ (Parsed /\ Ok(res)) => Consumed(res)



-----------------------------------------------------------------------------
(* The current node                                                        *)

\* The channel ends with the token id and then what the lexer ends with.
EndsWithThen(toks, id, last) ==
    /\ Len(toks) >= 2
    /\ toks[Len(toks) - 1].ID = id /\ toks[Len(toks)].ID = last

\* After AS or FORMAT a failed advance is followed by a second advance,
\* which fails before the nil node is read.
SuffixAdvanceSafe ==
    (Parsed /\ \E id \in {"AS", "FORMAT"} : EndsWithThen(tokens, id, "Error")) =>
        ~res.panic

\* A nil current node is read only after an advance has failed, and on no
\* channel of known tokens that ends with EOF.
NilOnlyAfterFailedAdvance ==
    (Parsed /\ res.panic) =>
        /\ res.p.raised # <<>>
        /\ ~(EndsWithEOF(tokens) /\ LexerStream(tokens))

\* C21: the current node p.node is non-nil whenever it is read: for no token
\* stream, including those where an Error token or the end of the stream
\* follows a COMMA, END, AS or FORMAT token, does a parse dereference a nil
\* current node after a failed advance.
C21_CurrentNodeNonNil ==
    /\ SuffixAdvanceSafe
    /\ NilOnlyAfterFailedAdvance
    /\ Parsed => ~res.panic



-----------------------------------------------------------------------------
(* Structural tokens                                                       *)

\* The tokens that are only consumed structurally.
StructuralNames == {"LPAREN", "RPAREN", "LBRACK", "RBRACK", "COMMA", "END", "EOF"}

\* No node of a returned AST has the name of a structural token.
NoStructuralName ==
    (Parsed /\ Ok(res)) => \A n \in Nodes(res.ast) : n.Name \notin StructuralNames

\* C22: no AST returned by a successful Parse contains a node named LPAREN,
\* RPAREN, LBRACK, RBRACK, COMMA, END or EOF: these tokens are only consumed
\* structurally, and an EOF token never becomes a node.
C22_NoStructuralNodes ==
    /\ NoStructuralName
    /\ (Parsed /\ Ok(res)) => \A n \in Nodes(res.ast) : n.Token.ID # "EOF"


=============================================================================
